---- MODULE Spec2Model ----
(***************************************************************************)
(* A model of the extraction and indexing pipeline:                        *)
(*   code_parser.py       CodeParser.parse_file and its helpers            *)
(*   embedding_system.py  EmbeddingSystem.index_code_sections, _generate_id*)
(*                                                                         *)
(* Text is a sequence of one-character strings where the code indexes or   *)
(* slices it (file content, section bodies) and a TLA+ string where the    *)
(* code only concatenates and compares it (identifiers, keys).             *)
(***************************************************************************)
EXTENDS Integers, Sequences, FiniteSets, TLC

(***************************************************************************)
(* Bounds of the model.  The four limits of the code are scaled down so    *)
(* that files of a few characters reach them; the code's values are named. *)
(***************************************************************************)
\* longest file content explored, in characters
MaxContentLen == 5
\* max_section_length / max_code_length (code: 5000)
MaxSectionLength == 3
\* lines the brace scan looks ahead of the start line (code: 500)
Lookahead == 3
\* lines kept when the scan finds no balancing brace (code: 50)
FallbackLines == 2
\* characters of a body kept as the stored document (code: 4000)
MaxDocumentLength == 2
\* largest batch_size of a run (code: default 100)
MaxBatchSize == 2
\* indexing runs in one behaviour
MaxRuns == 2
\* longest query
MaxQueryLen == 5
\* largest number of results asked for
MaxLimit == 2
\* largest file parsed, in bytes (the code's 500 KB)
MaxFileBytes == 4
\* most paths a walk meets
MaxWalk == 2
\* threads of the pool (the code's 10)
max_workers == 2
\* most texts in a batch
MaxTexts == 3
\* the lines of a file handed to the brace scan: at most 5, so that a line
\* lies beyond the lookahead
MaxLines == 5
\* purges in one behaviour
MaxPurges == 1

\* tool calls in one behaviour of the identifier machine
MaxCalls == 3

Min(a, b) == IF a < b THEN a ELSE b

\* s[:n] of Python, on a sequence of characters
Take(s, n) == SubSeq(s, 1, Min(n, Len(s)))

\* a sequence of characters as one string
RECURSIVE Str(_)
Str(s) == IF s = <<>> THEN "" ELSE Head(s) \o Str(Tail(s))

(***************************************************************************)
(* Files.  The characters a file may hold: the two rule prefixes, a name   *)
(* character, a newline (the only white space), and the two braces.        *)
(***************************************************************************)
Alphabet == {".", "#", "a", "\n", "{", "}"}

IsSpace(c) == c = "\n"
IsNameStart(c) == c = "a"
IsNameChar(c) == c = "a"

RECURSIVE SeqsUpTo(_, _)
SeqsUpTo(S, n) ==
    IF n = 0 THEN {<<>>}
    ELSE LET shorter == SeqsUpTo(S, n - 1)
         IN shorter \cup {Append(s, c) : s \in {t \in shorter : Len(t) = n - 1}, c \in S}

Contents == SeqsUpTo(Alphabet, MaxContentLen)

\* content.strip(): the content without leading and trailing white space
RECURSIVE LStrip(_)
LStrip(s) == IF s # <<>> /\ IsSpace(Head(s)) THEN LStrip(Tail(s)) ELSE s

RECURSIVE RStrip(_)
RStrip(s) ==
    IF s # <<>> /\ IsSpace(s[Len(s)]) THEN RStrip(SubSeq(s, 1, Len(s) - 1)) ELSE s

Strip(s) == RStrip(LStrip(s))

\* content.split('\n'): the lines of the content, at least one
RECURSIVE SplitLines(_, _, _)
SplitLines(s, p, cur) ==
    IF p > Len(s) THEN <<cur>>
    ELSE IF s[p] = "\n" THEN <<cur>> \o SplitLines(s, p + 1, <<>>)
    ELSE SplitLines(s, p + 1, Append(cur, s[p]))

Lines(content) == SplitLines(content, 1, <<>>)

\* '\n'.join(lines)
RECURSIVE Join(_)
Join(ls) ==
    IF ls = <<>> THEN <<>>
    ELSE IF Len(ls) = 1 THEN ls[1]
    ELSE ls[1] \o <<"\n">> \o Join(Tail(ls))

\* content[:pos].count('\n'), pos counted from 0
RECURSIVE CountNewlines(_, _)
CountNewlines(s, n) ==
    IF n = 0 THEN 0
    ELSE CountNewlines(s, n - 1) + (IF s[n] = "\n" THEN 1 ELSE 0)

\* "\n... (truncated)"
TruncationMarker ==
    <<"\n", ".", ".", ".", " ", "(", "t", "r", "u", "n", "c", "a", "t", "e", "d", ")">>

(***************************************************************************)
(* CodeParser.PATTERNS: kind -> ordered patterns.  The registry is data;   *)
(* the model carries the rules whose text lies in Alphabet, in registry    *)
(* order.  Each of these patterns is: a prefix character, a name (a        *)
(* letter, then word characters or hyphens, captured as group 1), optional *)
(* white space, an opening brace.  A pattern is given by its prefix.       *)
(***************************************************************************)
PATTERNS ==
    << [section_type |-> "css_class", patterns |-> <<".">>],
       [section_type |-> "css_id",    patterns |-> <<"#">>] >>

NoMatch == [start |-> -1, end |-> -1, group1 |-> <<>>]

RECURSIVE SkipName(_, _)
SkipName(s, p) == IF p <= Len(s) /\ IsNameChar(s[p]) THEN SkipName(s, p + 1) ELSE p

RECURSIVE SkipSpace(_, _)
SkipSpace(s, p) == IF p <= Len(s) /\ IsSpace(s[p]) THEN SkipSpace(s, p + 1) ELSE p

\* The match of the pattern with this prefix beginning at character p
\* (counted from 1); start and end are offsets counted from 0 as in Python.
\* The three character classes are disjoint, so the greedy match is the match.
MatchAt(s, p, prefix) ==
    IF p + 1 > Len(s) \/ s[p] # prefix \/ ~IsNameStart(s[p + 1]) THEN NoMatch
    ELSE LET q == SkipName(s, p + 2)
             r == SkipSpace(s, q)
         IN IF r <= Len(s) /\ s[r] = "{"
            THEN [start |-> p - 1, end |-> r, group1 |-> SubSeq(s, p + 1, q - 1)]
            ELSE NoMatch

\* re.finditer(pattern, content): the non-overlapping matches, left to right
RECURSIVE FindIter(_, _, _)
FindIter(s, p, prefix) ==
    IF p > Len(s) THEN <<>>
    ELSE LET m == MatchAt(s, p, prefix)
         IN IF m.start < 0 THEN FindIter(s, p + 1, prefix)
            ELSE <<m>> \o FindIter(s, m.end + 1, prefix)

(***************************************************************************)
(* CodeParser._extract_section_code: the brace scan.                       *)
(***************************************************************************)
\* ScanLine that ends at the first closing brace, whatever the count.
ScanLine_AnyClosing(line, k, brace_count, in_section) ==
    [brace_count |-> brace_count, in_section |-> in_section,
     done |-> \E j \in k..Len(line) : line[j] = "}"]

\* One line, character by character, from character k.  done: the count
\* came back to zero at a closing brace after an opening brace was seen.
RECURSIVE ScanLine(_, _, _, _)
ScanLine(line, k, brace_count, in_section) ==
    IF k > Len(line) THEN [brace_count |-> brace_count, in_section |-> in_section, done |-> FALSE]
    ELSE IF line[k] = "{" THEN ScanLine(line, k + 1, brace_count + 1, TRUE)
    ELSE IF line[k] = "}"
         THEN IF in_section /\ brace_count - 1 = 0
              THEN [brace_count |-> 0, in_section |-> TRUE, done |-> TRUE]
              ELSE ScanLine(line, k + 1, brace_count - 1, in_section)
    ELSE ScanLine(line, k + 1, brace_count, in_section)

\* Unbalanced with the end line taken from the limit, not from what was scanned.
Unbalanced_FixedEnd(lines, start_line, last) ==
    LET section_lines == SubSeq(lines, start_line, last)
        max_lines == Min(FallbackLines, Len(section_lines))
    IN [code |-> Join(SubSeq(section_lines, 1, max_lines)),
        end_line |-> start_line + FallbackLines - 1]

\* No matching brace in lines start_line..last: what was scanned, up to
\* FallbackLines lines.
Unbalanced(lines, start_line, last) ==
    LET section_lines == SubSeq(lines, start_line, last)
        max_lines == Min(FallbackLines, Len(section_lines))
    IN [code |-> Join(SubSeq(section_lines, 1, max_lines)),
        end_line |-> start_line + max_lines - 1]

\* Lines i..last (counted from 1) with the count carried over.
RECURSIVE ScanLines(_, _, _, _, _, _)
ScanLines(lines, start_line, i, last, brace_count, in_section) ==
    IF i > last THEN Unbalanced(lines, start_line, last)
    ELSE LET r == ScanLine(lines[i], 1, brace_count, in_section)
         IN IF r.done
            THEN [code |-> Join(SubSeq(lines, start_line, i)), end_line |-> i]
            ELSE ScanLines(lines, start_line, i + 1, last, r.brace_count, r.in_section)

\* _extract_section_code that scans to the end of the file.
_extract_section_code_Unbounded(lines, start_line) ==
    ScanLines(lines, start_line, start_line, Len(lines), 0, FALSE)

\* for i in range(start_line - 1, min(len(lines), start_line + 500))
_extract_section_code(lines, start_line) ==
    ScanLines(lines, start_line, start_line,
              Min(Len(lines), start_line + Lookahead), 0, FALSE)

(***************************************************************************)
(* CodeParser._extract_with_patterns                                       *)
(***************************************************************************)
\* section_code[:max_section_length] + "\n... (truncated)" when longer
Truncate(code) ==
    IF Len(code) > MaxSectionLength
    THEN Take(code, MaxSectionLength) \o TruncationMarker
    ELSE code

\* The sections of one match: one, or none when the extracted text is empty.
SectionOfMatch(m, section_type, content, lines, file) ==
    LET start_line == CountNewlines(content, m.start) + 1
        ext == _extract_section_code(lines, start_line)
    IN IF ext.code # <<>>
       THEN << [name |-> Str(m.group1),
                type |-> section_type,
                file_path |-> file.relative_path,
                start_line |-> start_line,
                end_line |-> ext.end_line,
                code |-> Truncate(ext.code),
                metadata |-> [pattern_type |-> section_type,
                              file_extension |-> file.suffix]] >>
       ELSE <<>>

RECURSIVE SectionsOfMatches(_, _, _, _, _)
SectionsOfMatches(ms, section_type, content, lines, file) ==
    IF ms = <<>> THEN <<>>
    ELSE SectionOfMatch(Head(ms), section_type, content, lines, file)
         \o SectionsOfMatches(Tail(ms), section_type, content, lines, file)

RECURSIVE SectionsOfPatterns(_, _, _, _, _)
SectionsOfPatterns(ps, section_type, content, lines, file) ==
    IF ps = <<>> THEN <<>>
    ELSE SectionsOfMatches(FindIter(content, 1, Head(ps)), section_type, content, lines, file)
         \o SectionsOfPatterns(Tail(ps), section_type, content, lines, file)

RECURSIVE SectionsOfRegistry(_, _, _, _)
SectionsOfRegistry(reg, content, lines, file) ==
    IF reg = <<>> THEN <<>>
    ELSE SectionsOfPatterns(Head(reg).patterns, Head(reg).section_type, content, lines, file)
         \o SectionsOfRegistry(Tail(reg), content, lines, file)

_extract_with_patterns(content, lines, file) ==
    SectionsOfRegistry(PATTERNS, content, lines, file)

(***************************************************************************)
(* CodeParser.parse_file.  A file is its path relative to the root, the    *)
(* stem and suffix of its name, its decoded content, and whether opening   *)
(* it succeeds; a failure is caught and yields no sections.                *)
(***************************************************************************)
\* WholeFileSection with the newlines counted instead of the lines.
WholeFileSection_NewlineCount(f, lines) ==
    [name |-> f.stem,
     type |-> "file",
     file_path |-> f.relative_path,
     start_line |-> 1,
     end_line |-> Len(lines) - 1,
     code |-> Truncate(f.content),
     metadata |-> [extension |-> f.suffix]]

WholeFileSection(file, lines) ==
    [name |-> file.stem,
     type |-> "file",
     file_path |-> file.relative_path,
     start_line |-> 1,
     end_line |-> Len(lines),
     code |-> Truncate(file.content),
     metadata |-> [extension |-> file.suffix]]

parse_file(file) ==
    IF ~file.readable THEN <<>>
    ELSE LET content == file.content
             lines == Lines(content)
             sections == _extract_with_patterns(content, lines, file)
         IN IF sections = <<>> /\ Len(Strip(content)) > 0
            THEN <<WholeFileSection(file, lines)>>
            ELSE sections

(***************************************************************************)
(* EmbeddingSystem._preprocess_query.  A query is a sequence of            *)
(* characters; the words put out and the tables are strings.               *)
(***************************************************************************)
UpperCase ==
    <<"A", "B", "C", "D", "E", "F", "G", "H", "I", "J", "K", "L", "M",
      "N", "O", "P", "Q", "R", "S", "T", "U", "V", "W", "X", "Y", "Z">>

LowerCase ==
    <<"a", "b", "c", "d", "e", "f", "g", "h", "i", "j", "k", "l", "m",
      "n", "o", "p", "q", "r", "s", "t", "u", "v", "w", "x", "y", "z">>

Digits == {"0", "1", "2", "3", "4", "5", "6", "7", "8", "9"}

\* str.lower(), character by character
LowerChar(c) ==
    IF \E k \in DOMAIN UpperCase : UpperCase[k] = c
    THEN LowerCase[CHOOSE k \in DOMAIN UpperCase : UpperCase[k] = c]
    ELSE c

Lower(s) == [k \in DOMAIN s |-> LowerChar(s[k])]

\* the white space str.strip() and str.split() take away
IsWhite(c) == c \in {" ", "\t", "\n"}

\* a word character of the regular expression language
IsWordChar(c) ==
    \/ \E k \in DOMAIN LowerCase : c \in {LowerCase[k], UpperCase[k]}
    \/ c \in Digits
    \/ c = "_"

RECURSIVE LStripWhite(_)
LStripWhite(s) == IF s # <<>> /\ IsWhite(Head(s)) THEN LStripWhite(Tail(s)) ELSE s

RECURSIVE RStripWhite(_)
RStripWhite(s) ==
    IF s # <<>> /\ IsWhite(s[Len(s)])
    THEN RStripWhite(SubSeq(s, 1, Len(s) - 1)) ELSE s

\* query.lower().strip()
Normalize(s) == RStripWhite(LStripWhite(Lower(s)))

\* query.split(): the maximal runs of characters that are not white space
RECURSIVE SplitWords(_, _, _)
SplitWords(s, p, cur) ==
    LET ended == IF cur = <<>> THEN <<>> ELSE <<cur>>
    IN IF p > Len(s) THEN ended
       ELSE IF IsWhite(s[p]) THEN ended \o SplitWords(s, p + 1, <<>>)
       ELSE SplitWords(s, p + 1, Append(cur, s[p]))

Split(s) == SplitWords(s, 1, <<>>)

\* ' '.join(words), the words being strings
RECURSIVE JoinSpace(_)
JoinSpace(ws) ==
    IF ws = <<>> THEN ""
    ELSE IF Len(ws) = 1 THEN ws[1]
    ELSE ws[1] \o " " \o JoinSpace(Tail(ws))

stop_words ==
    {"a", "an", "and", "are", "as", "at", "be", "by", "for",
     "from", "has", "he", "in", "is", "it", "its", "of", "on",
     "that", "the", "to", "was", "will", "with"}

abbreviations ==
    [auth |-> "authentication", config |-> "configuration", ctx |-> "context",
     db |-> "database", func |-> "function", impl |-> "implementation",
     params |-> "parameters", props |-> "properties", repo |-> "repository",
     res |-> "response", req |-> "request", util |-> "utility",
     btn |-> "button", msg |-> "message", init |-> "initialize",
     async |-> "asynchronous"]

\* the word without its punctuation: word characters, white space and
\* hyphens stay
CleanWord(word) ==
    SelectSeq(word, LAMBDA c : IsWordChar(c) \/ IsWhite(c) \/ c = "-")

\* ExpandWord that puts the expansion in the place of the abbreviation.
ExpandWord_ExpansionOnly(word) ==
    LET clean_word == Str(CleanWord(word))
    IN IF clean_word \in DOMAIN abbreviations
       THEN <<abbreviations[clean_word]>>
       ELSE IF clean_word \notin stop_words \/ Len(CleanWord(word)) > 3
       THEN <<clean_word>>
       ELSE <<>>

\* what one pass of the loop over the words appends to expanded_words
ExpandWord(word) ==
    LET clean_word == Str(CleanWord(word))
    IN IF clean_word \in DOMAIN abbreviations
       THEN <<clean_word, abbreviations[clean_word]>>
       ELSE IF clean_word \notin stop_words \/ Len(CleanWord(word)) > 3
       THEN <<clean_word>>
       ELSE <<>>

RECURSIVE ExpandWords(_)
ExpandWords(words) ==
    IF words = <<>> THEN <<>>
    ELSE ExpandWord(Head(words)) \o ExpandWords(Tail(words))

\* FallBack without the fall-back: the joined words are returned as they are.
FallBack_ProcessedOnly(raw, normalized, processed) == processed

\* return processed_query if processed_query else query, the name query
\* holding the lowered and stripped query by then
FallBack(raw, normalized, processed) ==
    IF processed # "" THEN processed ELSE Str(normalized)

_preprocess_query(raw) ==
    LET normalized == Normalize(raw)
        words == Split(normalized)
    IN FallBack(raw, normalized, JoinSpace(ExpandWords(words)))

(***************************************************************************)
(* CodeParser.should_parse_file.  A path the walk meets is given by its    *)
(* components: directory names (strings), the file name (characters), and  *)
(* what the file system says of it.  The size of a file is the number of   *)
(* characters of its content.                                              *)
(***************************************************************************)
SUPPORTED_EXTENSIONS ==
    {".js", ".jsx", ".ts", ".tsx", ".py", ".java", ".go", ".rs",
     ".cpp", ".c", ".h", ".hpp", ".liquid", ".html", ".htm", ".vue",
     ".css", ".scss", ".sass", ".less"}

default_skip_patterns ==
    {".min.js", ".min.css", ".min.html", ".chunk.js", ".bundle.js",
     "-min.js", "_min.js", ".production.js", ".prod.js",
     "bundle-main.js", "bundle-product.js", "bundle-customer.js",
     "bundle-cart.js", "bundle-", "chunk-"}

skip_dirs ==
    {"node_modules", ".git", "dist", "build", "coverage", "__pycache__",
     ".pytest_cache", "venv", ".venv", "vendor", "target", ".next", ".nuxt",
     "out"}

\* the largest index of a "." in the name, 0 when there is none
LastDot(name) ==
    IF \E k \in DOMAIN name : name[k] = "."
    THEN CHOOSE k \in DOMAIN name :
            name[k] = "." /\ \A j \in DOMAIN name : j > k => name[j] # "."
    ELSE 0

\* Path.suffix: from the last dot on, unless that dot begins or ends the name
Suffix(name) ==
    LET d == LastDot(name)
    IN IF 1 < d /\ d < Len(name) THEN SubSeq(name, d, Len(name)) ELSE <<>>

\* Path.stem: the name without its suffix
Stem(name) == SubSeq(name, 1, Len(name) - Len(Suffix(name)))

\* pattern in name, the pattern a string and the name a sequence of characters
Contains(name, pattern) ==
    \E a \in 1..(Len(name) + 1) : \E b \in (a - 1)..Len(name) :
        Str(SubSeq(name, a, b)) = pattern

\* file_path.parts: the directories and the file name
Parts(entry) == Append(entry.dirs, Str(entry.name))

\* TooLarge that also turns away a file of exactly the ceiling.
TooLarge_AtCeiling(st_size) == st_size >= MaxFileBytes

\* size_kb > self.max_file_size_kb, in bytes
TooLarge(st_size) == st_size > MaxFileBytes

should_parse_file(entry) ==
    IF Str(Suffix(entry.name)) \notin SUPPORTED_EXTENSIONS THEN FALSE
    ELSE IF \E pattern \in default_skip_patterns :
               Contains(Lower(entry.name), pattern) THEN FALSE
    ELSE IF ~entry.stat_ok THEN FALSE
    ELSE IF TooLarge(Len(entry.content)) THEN FALSE
    ELSE IF \E skip_dir \in skip_dirs :
               \E k \in DOMAIN Parts(entry) : Parts(entry)[k] = skip_dir THEN FALSE
    ELSE TRUE

\* str(file_path.relative_to(repo_root)): the components below the root
RECURSIVE JoinPath(_)
JoinPath(parts) ==
    IF parts = <<>> THEN ""
    ELSE IF Len(parts) = 1 THEN parts[1]
    ELSE parts[1] \o "/" \o JoinPath(Tail(parts))

\* the file as parse_file sees it
FileOf(entry) ==
    [relative_path |-> JoinPath(Tail(Parts(entry))),
     stem |-> Str(Stem(entry.name)),
     suffix |-> Str(Suffix(entry.name)),
     content |-> entry.content,
     readable |-> entry.readable]

\* Extend that starts over after a file that gave nothing.
Extend_LosingEarlier(collected, found) ==
    IF found = <<>> THEN <<>> ELSE collected \o found

\* all_sections.extend(sections)
Extend(collected, found) == collected \o found

VARIABLES
    \* the extractor: the file at hand, what parse_file returned, its position
    file, sections, ppc,
    \* the collection: key -> record
    store,
    \* index_code_sections: arguments, locals, position, returned summary
    repo_identifier, code_sections, batch_size,
    i, existing_ids, seen_ids_this_run,
    indexed_count, skipped_count, error_count,
    batch_data, embeddings, pc, result,
    \* observations of the run: whether collection.get() succeeded, the keys in
    \* the collection when the run began, the keys sent to the provider, the
    \* insertions made, every key computed so far, the run before (its arguments,
    \* its error count, whether it returned), the number of runs begun
    get_ok, store_at_start, embed_log, add_log, keylog, prev, runs,
    \* _generate_id applied to two argument tuples: the tuples, the two keys
    id_in, id_out,
    \* _preprocess_query: the argument, the words put out, the returned string,
    \* its position
    query, expanded_words, processed_query, qpc,
    \* search_sections: its arguments, what collection.query returned, the step
    \* that raised, the returned list, its position
    repo_filter, limit, min_score, neighbours, search_failed, formatted_results,
    spc,
    \* parse_repository: the paths the walk yields, the index of the next one,
    \* the sections collected, its position
    walk, rk, all_sections, rpc,
    \* _generate_embeddings_batch: the argument, the result slots, the state of
    \* each task, how many tasks were submitted and how many futures awaited,
    \* which provider calls succeeded, its position
    texts, results, task, submitted, waited, call_ok, bpc,
    \* _extract_section_code: its arguments, the (code, end_line) returned, its position
    src_lines, from_line, extracted, xpc,
    \* delete_repository / clear_all: the argument (none for clear_all), the call that raised, the returned count, the collection before the call, the number of purges
    purge_repo, purge_failed, deleted_count, store_before, purges,
    \* two calls of index_code_sections that overlap in time: the locals and position of each, the records of the collection (each with the call that inserted it), the number of insertion calls made
    call, records, add_calls,
    \* parse_repository called on one tree under several root locations
    repo_path, placed, tk, handed, walked, tpc,
    \* the tools of main.py called with several forms of one repository identifier
    default_branch, asked, tool, outcome, calls

(***************************************************************************)
(* The extractor as a state machine: one file is handed to parse_file.     *)
(***************************************************************************)
parseVars == <<file, sections, ppc>>

indexVars ==
    <<store, repo_identifier, code_sections, batch_size, i, existing_ids,
      seen_ids_this_run, indexed_count, skipped_count, error_count, batch_data,
      embeddings, pc, result, get_ok, store_at_start, embed_log, add_log,
      keylog, prev, runs>>

idVars == <<id_in, id_out>>

queryVars == <<query, expanded_words, processed_query, qpc>>

searchVars ==
    <<repo_filter, limit, min_score, neighbours, search_failed, formatted_results,
      spc>>

repoVars == <<walk, rk, all_sections, rpc>>

batchVars == <<texts, results, task, submitted, waited, call_ok, bpc>>

scanVars == <<src_lines, from_line, extracted, xpc>>

purgeVars == <<purge_repo, purge_failed, deleted_count, store_before, purges>>

overlapVars == <<call, records, add_calls>>

placeVars == <<repo_path, placed, tk, handed, walked, tpc>>

formVars == <<default_branch, asked, tool, outcome, calls>>

\* what the actions of one operation leave alone: the state of the others
notParseVars == <<indexVars, idVars, queryVars, searchVars, repoVars, batchVars, scanVars, purgeVars, overlapVars, placeVars, formVars>>

notIndexVars == <<parseVars, idVars, queryVars, searchVars, repoVars, batchVars, scanVars, purgeVars, overlapVars, placeVars, formVars>>

notIdVars == <<parseVars, indexVars, queryVars, searchVars, repoVars, batchVars, scanVars, purgeVars, overlapVars, placeVars, formVars>>

notQueryVars == <<parseVars, indexVars, idVars, searchVars, repoVars, batchVars, scanVars, purgeVars, overlapVars, placeVars, formVars>>

notSearchVars == <<parseVars, indexVars, idVars, queryVars, repoVars, batchVars, scanVars, purgeVars, overlapVars, placeVars, formVars>>

notRepoVars == <<parseVars, indexVars, idVars, queryVars, searchVars, batchVars, scanVars, purgeVars, overlapVars, placeVars, formVars>>

notBatchVars == <<parseVars, indexVars, idVars, queryVars, searchVars, repoVars, scanVars, purgeVars, overlapVars, placeVars, formVars>>

notScanVars == <<parseVars, indexVars, idVars, queryVars, searchVars, repoVars, batchVars, purgeVars, overlapVars, placeVars, formVars>>

notPurgeVars == <<parseVars, indexVars, idVars, queryVars, searchVars, repoVars, batchVars, scanVars, overlapVars, placeVars, formVars>>

notOverlapVars == <<parseVars, indexVars, idVars, queryVars, searchVars, repoVars, batchVars, scanVars, purgeVars, placeVars, formVars>>

notPlaceVars == <<parseVars, indexVars, idVars, queryVars, searchVars, repoVars, batchVars, scanVars, purgeVars, overlapVars, formVars>>

notFormVars == <<parseVars, indexVars, idVars, queryVars, searchVars, repoVars, batchVars, scanVars, purgeVars, overlapVars, placeVars>>

vars == <<parseVars, indexVars, idVars, queryVars, searchVars, repoVars, batchVars, scanVars, purgeVars, overlapVars, placeVars, formVars>>

Files ==
    [relative_path : {"a.css"}, stem : {"a"}, suffix : {".css"},
     content : Contents, readable : BOOLEAN]

ParseInit ==
    /\ file \in Files
    /\ sections = <<>>
    /\ ppc = "ready"

ParseFile ==
    /\ ppc = "ready"
    /\ sections' = parse_file(file)
    /\ ppc' = "parsed"
    /\ UNCHANGED file
    /\ UNCHANGED notParseVars

line_count == Len(Lines(file.content))

(***************************************************************************)
(* Keys.  hashlib.md5(...).hexdigest() is taken as injective and written   *)
(* as its argument between brackets that occur in no other text; the       *)
(* strings fed to it are built exactly as the code builds them.            *)
(***************************************************************************)
Md5Hex(s) == "<" \o s \o ">"

\* f"{n}" for an integer
IntStr(n) == ToString(n)

\* dict.get(key, default)
Get(d, key, default) == IF key \in DOMAIN d THEN d[key] ELSE default

\* f"{repo_identifier}::{file_path}::{section_name}::{start_line}::{end_line}::{code_hash}"
UniqueString(repo, file_path, section_name, start_line, end_line, code_hash) ==
    repo \o "::" \o file_path \o "::" \o section_name \o "::"
        \o IntStr(start_line) \o "::" \o IntStr(end_line) \o "::" \o code_hash

_generate_id(repo, file_path, section_name, start_line, end_line, code_hash) ==
    Md5Hex(UniqueString(repo, file_path, section_name,
                        start_line, end_line, code_hash))

\* CodeHash without the kind of the rule that matched.
CodeHash_NoPatternType(section) ==
    Md5Hex(Str(section.code) \o IntStr(section.start_line) \o IntStr(section.end_line))

\* f"{code_content}{pattern_type}{start_line}{end_line}", hashed, first 12 digits
CodeHash(section) ==
    LET code_content == Str(section.code)
        pattern_type == Get(section.metadata, "pattern_type", "")
    IN Md5Hex(code_content \o pattern_type
              \o IntStr(section.start_line) \o IntStr(section.end_line))

\* SectionId salted with the number of the run, as a per-process hash would be.
SectionId_PerRun(repo, section) ==
    _generate_id(repo \o "#" \o IntStr(runs), section.file_path, section.name,
                 section.start_line, section.end_line, CodeHash(section))

\* section_id of index_code_sections
SectionId(repo, section) ==
    _generate_id(repo, section.file_path, section.name,
                 section.start_line, section.end_line, CodeHash(section))

(***************************************************************************)
(* CodeParser.parse_repository and the section dictionaries handed to the  *)
(* indexer: CodeSection.to_dict of what parse_file returns for the files   *)
(* of a tree, in traversal order.  The first sample file holds three rules *)
(* on one line: the same rule twice, which yields the same section twice,  *)
(* and a rule of another kind over the same span.  The second and third    *)
(* are the same path after an edit: one rule, its body changed within the  *)
(* cap (an edit beyond the cap leaves the capped body as it was); and that *)
(* rule moved down one line.  The last matches no rule and becomes a       *)
(* whole-file section.                                                     *)
(***************************************************************************)
Range(f) == {f[k] : k \in DOMAIN f}

_generate_context(section) ==
    "File: " \o section.file_path \o "\n"
        \o "Type: " \o section.type \o "\n"
        \o "Name: " \o section.name \o "\n"
        \o "Lines: " \o IntStr(section.start_line) \o "-" \o IntStr(section.end_line) \o "\n"
        \o "Code:\n" \o Str(section.code)

to_dict(section) == [context |-> _generate_context(section)] @@ section

SampleFiles ==
    { [relative_path |-> "a.css", stem |-> "a", suffix |-> ".css", readable |-> TRUE,
       content |-> <<".", "a", "{", "}", ".", "a", "{", "}", "#", "a", "{", "}">>],
      [relative_path |-> "a.css", stem |-> "a", suffix |-> ".css", readable |-> TRUE,
       content |-> <<".", "a", "{">>],
      [relative_path |-> "a.css", stem |-> "a", suffix |-> ".css", readable |-> TRUE,
       content |-> <<"\n", ".", "a", "{">>],
      [relative_path |-> "b.css", stem |-> "b", suffix |-> ".css", readable |-> TRUE,
       content |-> <<"a", "a">>] }

\* the eligible files of a tree in the order the walk meets them; a tree
\* holds one file under a path
Trees ==
    {t \in SeqsUpTo(SampleFiles, 2) :
        \A j, k \in DOMAIN t : j # k => t[j].relative_path # t[k].relative_path}

\* all_sections: the per-file results, concatenated
RECURSIVE parse_repository(_)
parse_repository(tree) ==
    IF tree = <<>> THEN <<>>
    ELSE parse_file(Head(tree)) \o parse_repository(Tail(tree))

\* sections_dict = [section.to_dict() for section in code_sections]
SectionDictsOf(tree) ==
    LET parsed == parse_repository(tree)
    IN [k \in DOMAIN parsed |-> to_dict(parsed[k])]

SectionLists == {SectionDictsOf(t) : t \in Trees}

Repos == {"o/r", "o/q"}

(***************************************************************************)
(* EmbeddingSystem.index_code_sections as a state machine over the         *)
(* collection.  The embedding provider and the collection are external:    *)
(* every call to them either succeeds or raises.                           *)
(***************************************************************************)
\* embedding of a failed call
None == <<>>

\* The provider's vector for a text, opaque.  _generate_embedding cuts a
\* text longer than 6000 characters first; no text of the model is that long.
Vec(text) == <<"embedding", text>>

\* LoadExistingIds that never loads.
LoadExistingIds_Never(collection, get_succeeds) == {}

\* existing_ids after the try/except around collection.get()
LoadExistingIds(collection, get_succeeds) ==
    IF get_succeeds THEN DOMAIN collection ELSE {}

\* AlreadyKnown that looks only at the keys of this run.
AlreadyKnown_SeenOnly(section_id, existing, seen) == section_id \in seen

\* AlreadyKnown that looks only at the keys loaded or embedded so far.
AlreadyKnown_ExistingOnly(section_id, existing, seen) == section_id \in existing

\* section_id in existing_ids or section_id in seen_ids_this_run
AlreadyKnown(section_id, existing, seen) ==
    section_id \in existing \/ section_id \in seen

\* the item appended to batch_data for a section that is not skipped
BatchItem(repo, section, section_id) ==
    LET given == Get(section, "context", "")
        context == IF given # "" THEN given
                   ELSE "File: " \o section.file_path \o "\n"
                        \o "Type: " \o section.type \o "\n"
                        \o "Name: " \o section.name \o "\n"
                        \o "Code:\n" \o Str(Get(section, "code", <<>>))
        metadata == section.metadata @@
                    [repo |-> repo,
                     file_path |-> section.file_path,
                     name |-> section.name,
                     type |-> section.type,
                     start_line |-> section.start_line,
                     end_line |-> section.end_line]
    IN [id |-> section_id,
        context |-> context,
        metadata |-> metadata,
        document |-> Take(section.code, MaxDocumentLength)]

\* what was keyed: the section's identity, body and kind, and the key computed
KeyEntry(repo, section, section_id) ==
    [repo |-> repo, file_path |-> section.file_path, name |-> section.name,
     start_line |-> section.start_line, end_line |-> section.end_line,
     code |-> section.code, type |-> Get(section, "type", ""), id |-> section_id]

\* the keys whose lookup raises KeyError before the section is marked as
\* seen (section["file_path"], section["name"]) and after (section["type"])
KeyedFields == {"file_path", "name"}

\* for section in batch: ... (the preparation loop of one batch); a section
\* whose preparation raises is counted in errors and left out
RECURSIVE PrepareSections(_, _, _, _)
PrepareSections(batch, repo, existing, acc) ==
    IF batch = <<>> THEN acc
    ELSE LET section == Head(batch)
         IN IF ~(KeyedFields \subseteq DOMAIN section)
            THEN PrepareSections(Tail(batch), repo, existing,
                    [acc EXCEPT !.error_count = @ + 1])
            ELSE LET section_id == SectionId(repo, section)
                     keyed == acc.keyed \cup {KeyEntry(repo, section, section_id)}
                 IN IF AlreadyKnown(section_id, existing, acc.seen_ids_this_run)
                    THEN PrepareSections(Tail(batch), repo, existing,
                            [acc EXCEPT !.skipped_count = @ + 1, !.keyed = keyed])
                    ELSE IF "type" \notin DOMAIN section
                    THEN PrepareSections(Tail(batch), repo, existing,
                            [acc EXCEPT !.seen_ids_this_run = @ \cup {section_id},
                                        !.error_count = @ + 1,
                                        !.keyed = keyed])
                    ELSE PrepareSections(Tail(batch), repo, existing,
                            [acc EXCEPT !.seen_ids_this_run = @ \cup {section_id},
                                        !.batch_data =
                                            Append(@, BatchItem(repo, section, section_id)),
                                        !.keyed = keyed])

\* ValidItems that gives up the batch when one embedding failed.
ValidItems_AllOrNothing(items, embs) ==
    IF \E k \in DOMAIN embs : embs[k] = None THEN <<>>
    ELSE [k \in DOMAIN items |->
            [id |-> items[k].id, embedding |-> embs[k],
             metadata |-> items[k].metadata, document |-> items[k].document]]

\* for item, embedding in zip(batch_data, embeddings): the items embedded
RECURSIVE ValidItems(_, _)
ValidItems(items, embs) ==
    IF items = <<>> THEN <<>>
    ELSE IF Head(embs) # None
         THEN <<[id |-> Head(items).id, embedding |-> Head(embs),
                 metadata |-> Head(items).metadata,
                 document |-> Head(items).document]>>
              \o ValidItems(Tail(items), Tail(embs))
         ELSE ValidItems(Tail(items), Tail(embs))

\* CountsAfterAdd that counts the errors but leaves indexed as it was.
CountsAfterAdd_NoCorrection(indexed, errors, n_ids, add_succeeds) ==
    IF add_succeeds THEN [indexed_count |-> indexed, error_count |-> errors]
    ELSE [indexed_count |-> indexed, error_count |-> errors + n_ids]

\* CountsAfterAdd that takes a failed insertion out of indexed and counts it
\* nowhere.
CountsAfterAdd_Uncounted(indexed, errors, n_ids, add_succeeds) ==
    IF add_succeeds THEN [indexed_count |-> indexed, error_count |-> errors]
    ELSE [indexed_count |-> indexed - n_ids, error_count |-> errors]

\* The counters after the insertion of n_ids records was attempted; indexed
\* already counts them (they were counted while the lists were built).
CountsAfterAdd(indexed, errors, n_ids, add_succeeds) ==
    IF add_succeeds THEN [indexed_count |-> indexed, error_count |-> errors]
    ELSE [indexed_count |-> indexed - n_ids, error_count |-> errors + n_ids]

\* CollectionAdd that stores nothing of a call.
CollectionAdd_Nothing(collection, items) == collection

\* CollectionAdd that leaves only the records of the call.
CollectionAdd_Replacing(collection, items) ==
    [id \in {items[k].id : k \in DOMAIN items} |->
        LET k == CHOOSE j \in DOMAIN items : items[j].id = id
        IN [embedding |-> items[k].embedding, metadata |-> items[k].metadata,
            document |-> items[k].document]]

\* collection.add(ids, embeddings, metadatas, documents), when it succeeds
CollectionAdd(collection, items) ==
    LET new == {items[k].id : k \in DOMAIN items}
        of(id) == CHOOSE k \in DOMAIN items : items[k].id = id
    IN [id \in DOMAIN collection \cup new |->
          IF id \in DOMAIN collection THEN collection[id]
          ELSE [embedding |-> items[of(id)].embedding,
                metadata |-> items[of(id)].metadata,
                document |-> items[of(id)].document]]

EmptyCollection == [id \in {} |-> <<>>]

NoRun == [repo |-> "", sections |-> <<>>, errors |-> -1, returned |-> FALSE]

NoResult == [indexed |-> -1, skipped |-> -1, errors |-> -1, total |-> -1,
             collection_size |-> -1]

\* no run of index_code_sections has begun
IndexLocalsIdle ==
    /\ repo_identifier = ""
    /\ code_sections = <<>>
    /\ batch_size = 1
    /\ i = 0
    /\ existing_ids = {}
    /\ seen_ids_this_run = {}
    /\ indexed_count = 0
    /\ skipped_count = 0
    /\ error_count = 0
    /\ batch_data = <<>>
    /\ embeddings = <<>>
    /\ pc = "idle"
    /\ result = NoResult
    /\ get_ok = TRUE
    /\ store_at_start = {}
    /\ embed_log = <<>>
    /\ add_log = <<>>
    /\ keylog = {}
    /\ prev = NoRun
    /\ runs = 0

IndexInit ==
    /\ store = EmptyCollection
    /\ IndexLocalsIdle

\* index_code_sections(repo, secs, size) is called: the counters are zeroed
\* and the existing keys are loaded, or taken as none when the load raises.
StartRunOn(lists) ==
    /\ pc \in {"idle", "done", "raised"}
    /\ runs < MaxRuns
    /\ \E repo \in Repos, secs \in lists,
          size \in 1..MaxBatchSize, get_succeeds \in BOOLEAN :
         /\ repo_identifier' = repo
         /\ code_sections' = secs
         /\ batch_size' = size
         /\ get_ok' = get_succeeds
         /\ existing_ids' = LoadExistingIds(store, get_succeeds)
    /\ indexed_count' = 0
    /\ skipped_count' = 0
    /\ error_count' = 0
    /\ seen_ids_this_run' = {}
    /\ i' = 0
    /\ batch_data' = <<>>
    /\ embeddings' = <<>>
    /\ result' = NoResult
    /\ store_at_start' = DOMAIN store
    /\ embed_log' = <<>>
    /\ add_log' = <<>>
    /\ prev' = IF runs = 0 THEN NoRun
               ELSE [repo |-> repo_identifier, sections |-> code_sections,
                     errors |-> error_count, returned |-> pc = "done"]
    /\ runs' = runs + 1
    /\ pc' = "loop"
    /\ UNCHANGED <<store, keylog>>
    /\ UNCHANGED notIndexVars

\* a run over what the parser returned, as analyze_repository starts it
StartRun == StartRunOn(SectionLists)

\* One pass of the batch loop up to the embedding call: the batch is cut,
\* each section keyed and skipped or queued; an empty queue ends the pass.
PrepareBatch ==
    /\ pc = "loop"
    /\ i < Len(code_sections)
    /\ LET batch == SubSeq(code_sections, i + 1, Min(i + batch_size, Len(code_sections)))
           done == PrepareSections(batch, repo_identifier, existing_ids,
                      [batch_data |-> <<>>, skipped_count |-> skipped_count,
                       error_count |-> error_count,
                       seen_ids_this_run |-> seen_ids_this_run, keyed |-> keylog])
       IN /\ batch_data' = done.batch_data
          /\ skipped_count' = done.skipped_count
          /\ error_count' = done.error_count
          /\ seen_ids_this_run' = done.seen_ids_this_run
          /\ keylog' = done.keyed
          /\ IF done.batch_data = <<>>
             THEN /\ i' = i + batch_size
                  /\ pc' = "loop"
             ELSE /\ i' = i
                  /\ pc' = "embed"
    /\ embeddings' = <<>>
    /\ UNCHANGED <<store, repo_identifier, code_sections, batch_size, existing_ids,
                   indexed_count, result, get_ok, store_at_start,
                   embed_log, add_log, prev, runs>>
    /\ UNCHANGED notIndexVars

\* _generate_embeddings_batch(contexts): every context is sent to the
\* provider; a call that raises leaves None in its slot.
GenerateEmbeddingsBatch ==
    /\ pc = "embed"
    /\ \E failed \in SUBSET DOMAIN batch_data :
         embeddings' = [k \in DOMAIN batch_data |->
                          IF k \in failed THEN None ELSE Vec(batch_data[k].context)]
    /\ embed_log' = embed_log \o [k \in DOMAIN batch_data |-> batch_data[k].id]
    /\ pc' = "collect"
    /\ UNCHANGED <<store, repo_identifier, code_sections, batch_size, i, existing_ids,
                   seen_ids_this_run, indexed_count, skipped_count, error_count,
                   batch_data, result, get_ok, store_at_start, add_log, keylog,
                   prev, runs>>
    /\ UNCHANGED notIndexVars

\* The rest of the pass: the embedded items are collected and counted, and
\* inserted in one call, which succeeds or raises.
AddBatch ==
    /\ pc = "collect"
    /\ LET valid == ValidItems(batch_data, embeddings)
           ids == [k \in DOMAIN valid |-> valid[k].id]
           n_failed == Len(batch_data) - Len(valid)
       IN /\ existing_ids' = existing_ids \cup Range(ids)
          /\ \E add_succeeds \in BOOLEAN :
               /\ ids = <<>> => add_succeeds
               /\ LET counts == IF ids = <<>>
                                THEN [indexed_count |-> indexed_count,
                                      error_count |-> error_count + n_failed]
                                ELSE CountsAfterAdd(indexed_count + Len(ids),
                                                    error_count + n_failed,
                                                    Len(ids), add_succeeds)
                  IN /\ indexed_count' = counts.indexed_count
                     /\ error_count' = counts.error_count
               /\ store' = IF ids # <<>> /\ add_succeeds
                           THEN CollectionAdd(store, valid) ELSE store
               /\ add_log' = Append(add_log,
                                [batch |-> [k \in DOMAIN batch_data |-> batch_data[k].id],
                                 failed |-> {k \in DOMAIN embeddings : embeddings[k] = None},
                                 ids |-> ids,
                                 called |-> ids # <<>>,
                                 ok |-> add_succeeds])
    /\ i' = i + batch_size
    /\ pc' = "loop"
    /\ UNCHANGED <<repo_identifier, code_sections, batch_size, seen_ids_this_run,
                   skipped_count, batch_data, embeddings, result, get_ok,
                   store_at_start, embed_log, keylog, prev, runs>>
    /\ UNCHANGED notIndexVars

\* After the last batch: the summary is built, or collection.count() raises.
FinishRun ==
    /\ pc = "loop"
    /\ i >= Len(code_sections)
    /\ \E count_succeeds \in BOOLEAN :
         IF count_succeeds
         THEN /\ result' = [indexed |-> indexed_count,
                            skipped |-> skipped_count,
                            errors |-> error_count,
                            total |-> Len(code_sections),
                            collection_size |-> Cardinality(DOMAIN store)]
              /\ pc' = "done"
         ELSE /\ result' = NoResult
              /\ pc' = "raised"
    /\ UNCHANGED <<store, repo_identifier, code_sections, batch_size, i, existing_ids,
                   seen_ids_this_run, indexed_count, skipped_count, error_count,
                   batch_data, embeddings, get_ok, store_at_start, embed_log,
                   add_log, keylog, prev, runs>>
    /\ UNCHANGED notIndexVars

(***************************************************************************)
(* _generate_id as a function of its six arguments.  File paths are names  *)
(* a file system allows, "::" included; a section name is an identifier a  *)
(* rule captured or, for a whole-file section, the stem of the file name;  *)
(* the content hash is a digest.                                           *)
(***************************************************************************)
IdFiles ==
    { [relative_path |-> "a.py",             stem |-> "a"],
      [relative_path |-> "a.py::c.py",       stem |-> "a.py::c"],
      [relative_path |-> "a.py::c.py::a.py", stem |-> "a.py::c.py::a"] }

IdTuplesOf(f) ==
    { [repo |-> r, file_path |-> f.relative_path, name |-> n,
       start_line |-> 1, end_line |-> e, code_hash |-> h] :
        r \in Repos, n \in {"c", f.stem},
        e \in {1, 12}, h \in {Md5Hex("x"), Md5Hex("y")} }

IdTuples == UNION {IdTuplesOf(f) : f \in IdFiles}

IdOf(t) ==
    _generate_id(t.repo, t.file_path, t.name, t.start_line, t.end_line, t.code_hash)

IdInit ==
    /\ id_in \in IdTuples \X IdTuples
    /\ id_out = <<>>

IdIdle ==
    /\ id_in = <<>>
    /\ id_out = <<>>

GenerateIds ==
    /\ id_in # <<>>
    /\ id_out = <<>>
    /\ id_out' = <<IdOf(id_in[1]), IdOf(id_in[2])>>
    /\ UNCHANGED <<id_in, notIdVars>>

(***************************************************************************)
(* _preprocess_query as a state machine: one query is preprocessed.  The   *)
(* characters of a query: letters that spell stop words of up to three     *)
(* letters ("a", "at"), one of four ("that") and an abbreviation ("db"),   *)
(* a capital, white space and a punctuation mark.                          *)
(***************************************************************************)
QueryAlphabet == {"a", "t", "h", "d", "b", "A", " ", "!"}

Queries == SeqsUpTo(QueryAlphabet, MaxQueryLen)

QueryInit ==
    /\ query \in Queries
    /\ expanded_words = <<>>
    /\ processed_query = ""
    /\ qpc = "ready"

QueryIdle ==
    /\ query = <<>>
    /\ expanded_words = <<>>
    /\ processed_query = ""
    /\ qpc = "idle"

PreprocessQuery ==
    /\ qpc = "ready"
    /\ expanded_words' = ExpandWords(Split(Normalize(query)))
    /\ processed_query' = _preprocess_query(query)
    /\ qpc' = "done"
    /\ UNCHANGED query
    /\ UNCHANGED notQueryVars

(***************************************************************************)
(* EmbeddingSystem.search_sections.  Distances and scores are counted in   *)
(* units of 0.00001, so 100000 stands for 1.0 and four decimals are the    *)
(* multiples of 10.  collection.query is called without an include list    *)
(* and so always answers with distances.                                   *)
(***************************************************************************)
\* round(score, 4): to the nearest multiple of 10, a tie to the even one
Round4(score) ==
    LET q == score \div 10
        r == score % 10
    IN IF r < 5 THEN 10 * q
       ELSE IF r > 5 THEN 10 * (q + 1)
       ELSE IF q % 2 = 0 THEN 10 * q ELSE 10 * (q + 1)

\* Keeps that lets every neighbour through.
Keeps_Always(score, lowest) == TRUE

\* Keeps that drops a score equal to min_score.
Keeps_Strict(score, lowest) == score > lowest

\* if score < min_score: continue
Keeps(score, lowest) == ~(score < lowest)

\* the loop over results["ids"][0]
RECURSIVE FormatResults(_, _)
FormatResults(returned, lowest) ==
    IF returned = <<>> THEN <<>>
    ELSE LET distance == Head(returned).distance
             score == 100000 - distance
         IN IF ~Keeps(score, lowest) THEN FormatResults(Tail(returned), lowest)
            ELSE <<[id |-> Head(returned).id,
                    score |-> Round4(score),
                    metadata |-> Head(returned).metadata,
                    code |-> Head(returned).document]>>
                 \o FormatResults(Tail(returned), lowest)

\* OnSearchError that returns what was formatted before the exception.
OnSearchError_Partial(partial) == partial

\* except Exception: return []
OnSearchError(partial) == <<>>

\* where_filter of search_sections
WhereFilter(filter) == IF filter # "" THEN [repo |-> filter] ELSE None

\* the records of the collection a where filter lets through
Matching(collection, where_filter) ==
    {id \in DOMAIN collection :
        where_filter = None \/ collection[id].metadata.repo = where_filter.repo}

\* cosine distances, from the same direction (0) to the opposite one (2.0)
Distances == {0, 30004, 100000, 100004, 150000, 200000}

\* What collection.query(query_embeddings, n_results, where) may answer: at
\* most n_results records that pass the filter, each once, nearest first.
QueryResults(collection, where_filter, n_results) ==
    LET ids == Matching(collection, where_filter)
        longest == Min(n_results, Cardinality(ids))
    IN {[k \in DOMAIN nb |->
           [id |-> nb[k][1], distance |-> nb[k][2],
            metadata |-> collection[nb[k][1]].metadata,
            document |-> collection[nb[k][1]].document]] :
        nb \in {t \in SeqsUpTo(ids \X Distances, longest) :
                  /\ \A j, k \in DOMAIN t : j # k => t[j][1] # t[k][1]
                  /\ \A j, k \in DOMAIN t : j < k => t[j][2] <= t[k][2]}}

\* the collection after the sections were indexed for repo, nothing failing
IndexedCollection(collection, repo, secs) ==
    LET done == PrepareSections(secs, repo, DOMAIN collection,
                   [batch_data |-> <<>>, skipped_count |-> 0, error_count |-> 0,
                    seen_ids_this_run |-> {}, keyed |-> {}])
        embs == [k \in DOMAIN done.batch_data |-> Vec(done.batch_data[k].context)]
    IN CollectionAdd(collection, ValidItems(done.batch_data, embs))

\* collections left by indexing one repository and then another
Collections ==
    {IndexedCollection(IndexedCollection(EmptyCollection, "o/r", s), "o/q", t) :
        s \in SectionLists, t \in SectionLists}

SearchQueries == {<<"d", "b">>, <<"A", " ", "a", "t">>}

MinScores == {-100000, 0, 50000}

SearchInit ==
    /\ store \in Collections
    /\ IndexLocalsIdle
    /\ query \in SearchQueries
    /\ expanded_words = <<>>
    /\ processed_query = ""
    /\ qpc = "idle"
    /\ repo_filter \in {"", "o/r"}
    /\ limit \in 1..MaxLimit
    /\ min_score \in MinScores
    /\ neighbours = <<>>
    /\ search_failed = "none"
    /\ formatted_results = <<>>
    /\ spc = "ready"

SearchIdle ==
    /\ repo_filter = ""
    /\ limit = 1
    /\ min_score = 0
    /\ neighbours = <<>>
    /\ search_failed = "none"
    /\ formatted_results = <<>>
    /\ spc = "idle"

\* search_sections(query, repo_filter, limit, min_score): the query is
\* preprocessed and embedded, the collection queried, the answer formatted;
\* any of the four may raise, the last at any neighbour.
Search ==
    /\ spc = "ready"
    /\ \E failed \in {"none", "preprocess", "embedding", "query", "convert"},
          returned \in QueryResults(store, WhereFilter(repo_filter), limit) :
         /\ search_failed' = failed
         /\ processed_query' = IF failed = "preprocess" THEN ""
                               ELSE _preprocess_query(query)
         /\ neighbours' = IF failed \in {"none", "convert"} THEN returned ELSE <<>>
         /\ CASE failed = "none" ->
                   formatted_results' = FormatResults(returned, min_score)
              [] failed = "convert" ->
                   \E at \in DOMAIN returned :
                      formatted_results' =
                         OnSearchError(FormatResults(SubSeq(returned, 1, at - 1),
                                                     min_score))
              [] OTHER ->
                   formatted_results' = OnSearchError(<<>>)
    /\ spc' = "returned"
    /\ UNCHANGED <<query, expanded_words, qpc, repo_filter, limit, min_score>>
    /\ UNCHANGED <<parseVars, indexVars, idVars, repoVars, batchVars, scanVars, purgeVars, overlapVars, placeVars, formVars>>

(***************************************************************************)
(* CodeParser.parse_repository as a state machine: the walk hands one path *)
(* after another to should_parse_file and parse_file.  The paths: a        *)
(* stylesheet at the root and in a source directory, of 2, 4 and 5 bytes,  *)
(* that stat() or open() may refuse; a minified stylesheet spelt in two    *)
(* cases and a text file; a stylesheet in a build directory; a directory.  *)
(***************************************************************************)
Stylesheet == <<"a", ".", "c", "s", "s">>

OtherNames ==
    { <<"b", ".", "m", "i", "n", ".", "c", "s", "s">>,
      <<"b", ".", "M", "i", "n", ".", "c", "s", "s">>,
      <<"a", ".", "t", "x", "t">> }

Rule == <<".", "a", "{", "}">>

EntryContents == { <<"a", "a">>, Rule, Rule \o <<"\n">> }

WalkEntries ==
    [dirs : {<<"r">>, <<"r", "src">>}, name : {Stylesheet},
     content : EntryContents, is_file : {TRUE},
     stat_ok : BOOLEAN, readable : BOOLEAN]
    \cup
    [dirs : {<<"r">>}, name : OtherNames, content : {Rule}, is_file : {TRUE},
     stat_ok : {TRUE}, readable : {TRUE}]
    \cup
    {[dirs |-> <<"r", "build">>, name |-> Stylesheet, content |-> Rule,
      is_file |-> TRUE, stat_ok |-> TRUE, readable |-> TRUE],
     [dirs |-> <<"r">>, name |-> <<"d", ".", "c", "s", "s">>, content |-> <<>>,
      is_file |-> FALSE, stat_ok |-> TRUE, readable |-> FALSE]}

\* the paths of a walk are different paths
Walks ==
    {t \in SeqsUpTo(WalkEntries, MaxWalk) :
        \A j, k \in DOMAIN t : j # k => Parts(t[j]) # Parts(t[k])}

RepoInit ==
    /\ walk \in Walks
    /\ rk = 1
    /\ all_sections = <<>>
    /\ rpc = "walk"

RepoIdle ==
    /\ walk = <<>>
    /\ rk = 1
    /\ all_sections = <<>>
    /\ rpc = "idle"

\* one pass of: for file_path in repo_path.rglob("*")
WalkStep ==
    /\ rpc = "walk"
    /\ rk <= Len(walk)
    /\ all_sections' =
          IF ~walk[rk].is_file THEN all_sections
          ELSE IF ~should_parse_file(walk[rk]) THEN all_sections
          ELSE Extend(all_sections, parse_file(FileOf(walk[rk])))
    /\ rk' = rk + 1
    /\ UNCHANGED <<walk, rpc>>
    /\ UNCHANGED notRepoVars

\* return all_sections
WalkReturn ==
    /\ rpc = "walk"
    /\ rk > Len(walk)
    /\ rpc' = "done"
    /\ UNCHANGED <<walk, rk, all_sections>>
    /\ UNCHANGED notRepoVars

(***************************************************************************)
(* EmbeddingSystem._generate_embeddings_batch as a state machine.  The     *)
(* calling thread submits one task per text and then awaits the futures    *)
(* in order; the threads of the pool take the submitted tasks in order,    *)
(* each thread one task at a time; a task calls the provider and writes    *)
(* its slot.                                                               *)
(***************************************************************************)
BatchTexts == SeqsUpTo({"x", "y"}, MaxTexts)

\* the tasks whose provider call is under way
InFlight == {k \in DOMAIN task : task[k] = "running"}

\* CanStart of a pool that starts a thread for every task.
CanStart_Unbounded(running) == TRUE

\* ThreadPoolExecutor(max_workers=10): a task starts when a thread is free
CanStart(running) == running < max_workers

\* SlotOf that fills the slots in the order the tasks finish.
SlotOf_CompletionOrder(index, finished) == finished + 1

\* results[index] = ... in generate_one
SlotOf(index, finished) == index

BatchInit ==
    /\ texts \in BatchTexts
    /\ results = [k \in DOMAIN texts |-> None]
    /\ task = [k \in DOMAIN texts |-> "new"]
    /\ submitted = 0
    /\ waited = 0
    /\ call_ok = [k \in DOMAIN texts |-> FALSE]
    /\ bpc = "submit"

BatchIdle ==
    /\ texts = <<>>
    /\ results = <<>>
    /\ task = <<>>
    /\ submitted = 0
    /\ waited = 0
    /\ call_ok = <<>>
    /\ bpc = "idle"

\* executor.submit(generate_one, i, text)
Submit ==
    /\ bpc = "submit"
    /\ submitted < Len(texts)
    /\ submitted' = submitted + 1
    /\ task' = [task EXCEPT ![submitted + 1] = "queued"]
    /\ UNCHANGED <<texts, results, waited, call_ok, bpc>>
    /\ UNCHANGED notBatchVars

\* the loop over the texts is over
SubmittedAll ==
    /\ bpc = "submit"
    /\ submitted = Len(texts)
    /\ bpc' = "wait"
    /\ UNCHANGED <<texts, results, task, submitted, waited, call_ok>>
    /\ UNCHANGED notBatchVars

\* a thread of the pool takes the oldest queued task and calls the provider
StartTask ==
    /\ \E k \in DOMAIN task :
         /\ task[k] = "queued"
         /\ \A j \in DOMAIN task : j < k => task[j] # "queued"
         /\ CanStart(Cardinality(InFlight))
         /\ task' = [task EXCEPT ![k] = "running"]
    /\ UNCHANGED <<texts, results, submitted, waited, call_ok, bpc>>
    /\ UNCHANGED notBatchVars

\* generate_one ends: the call returned an embedding, or raised and the
\* exception was caught
FinishTask ==
    /\ \E k \in InFlight, succeeds \in BOOLEAN :
         LET finished == Cardinality({j \in DOMAIN task : task[j] = "done"})
         IN /\ results' = [results EXCEPT ![SlotOf(k, finished)] =
                              IF succeeds THEN Vec(texts[k]) ELSE None]
            /\ call_ok' = [call_ok EXCEPT ![k] = succeeds]
            /\ task' = [task EXCEPT ![k] = "done"]
    /\ UNCHANGED <<texts, submitted, waited, bpc>>
    /\ UNCHANGED notBatchVars

\* future.result() of the next future returns
AwaitFuture ==
    /\ bpc = "wait"
    /\ waited < Len(texts)
    /\ task[waited + 1] = "done"
    /\ waited' = waited + 1
    /\ UNCHANGED <<texts, results, task, submitted, call_ok, bpc>>
    /\ UNCHANGED notBatchVars

\* the with block is left, which waits for the threads, and results returned
ReturnResults ==
    /\ bpc = "wait"
    /\ waited = Len(texts)
    /\ \A k \in DOMAIN task : task[k] = "done"
    /\ bpc' = "returned"
    /\ UNCHANGED <<texts, results, task, submitted, waited, call_ok>>
    /\ UNCHANGED notBatchVars

(***************************************************************************)
(* CodeParser._extract_section_code applied to the lines of a file and the *)
(* line of a match.  A line is taken by its braces: none, an opening one,  *)
(* a closing one, both in either order.  A match begins anywhere on its    *)
(* line and need not hold a brace (a rule such as "class" has none), so    *)
(* every line of the file may be the start line.                           *)
(***************************************************************************)
ScanLineKinds ==
    { <<"a">>, <<"{">>, <<"}">>, <<"{", "}">>, <<"}", "{">> }

ScanFiles == SeqsUpTo(ScanLineKinds, MaxLines) \ {<<>>}

NoExtract == [code |-> <<>>, end_line |-> 0]

ScanInit ==
    /\ src_lines \in ScanFiles
    /\ from_line \in 1..MaxLines
    /\ from_line <= Len(src_lines)
    /\ extracted = NoExtract
    /\ xpc = "ready"

ScanIdle ==
    /\ src_lines = <<<<"a">>>>
    /\ from_line = 1
    /\ extracted = NoExtract
    /\ xpc = "idle"

\* section_code, end_line = self._extract_section_code(lines, start_line, ...)
ExtractSectionCode ==
    /\ xpc = "ready"
    /\ extracted' = _extract_section_code(src_lines, from_line)
    /\ xpc' = "returned"
    /\ UNCHANGED <<src_lines, from_line>>
    /\ UNCHANGED notScanVars

(***************************************************************************)
(* EmbeddingSystem.get_repository_sections, delete_repository and          *)
(* clear_all, called between indexing runs, as main.py calls them one      *)
(* after another.                                                          *)
(***************************************************************************)
\* get_repository_sections(repo_identifier): the records whose metadata
\* names the repository, or none when collection.get raises
get_repository_sections(collection, repo, get_succeeds) ==
    IF get_succeeds
    THEN {[id |-> id, metadata |-> collection[id].metadata,
           code |-> collection[id].document] :
            id \in Matching(collection, [repo |-> repo])}
    ELSE {}

\* CollectionDelete that empties the collection.
CollectionDelete_All(collection, ids) == EmptyCollection

\* collection.delete(ids=ids), when it succeeds
CollectionDelete(collection, ids) ==
    [id \in DOMAIN collection \ ids |-> collection[id]]

\* what delete_repository returns once it has the ids: len(ids), or 0 when
\* collection.delete raised
DeletedCount(collection, ids, delete_succeeds) ==
    IF delete_succeeds THEN Cardinality(ids) ELSE 0

\* the collection as indexing two repositories left it; no purge yet
PurgeInit ==
    /\ store \in Collections
    /\ IndexLocalsIdle
    /\ purge_repo = ""
    /\ purge_failed = "none"
    /\ deleted_count = 0
    /\ store_before = EmptyCollection
    /\ purges = 0

PurgeIdle ==
    /\ purge_repo = ""
    /\ purge_failed = "none"
    /\ deleted_count = 0
    /\ store_before = EmptyCollection
    /\ purges = 0

\* delete_repository(repo): the repository's records are fetched and deleted
\* by key; either call may raise.
DeleteRepository ==
    /\ pc \in {"idle", "done", "raised"}
    /\ purges < MaxPurges
    /\ \E repo \in Repos, failed \in {"none", "get", "delete"} :
         LET found == get_repository_sections(store, repo, failed # "get")
             ids == {s.id : s \in found}
         IN /\ failed = "delete" => found # {}
            /\ purge_repo' = repo
            /\ purge_failed' = failed
            /\ IF found # {}
               THEN /\ store' = IF failed = "none" THEN CollectionDelete(store, ids)
                                ELSE store
                    /\ deleted_count' = DeletedCount(store, ids, failed = "none")
               ELSE /\ store' = store
                    /\ deleted_count' = 0
    /\ store_before' = store
    /\ purges' = purges + 1
    /\ UNCHANGED <<repo_identifier, code_sections, batch_size, i, existing_ids,
                   seen_ids_this_run, indexed_count, skipped_count, error_count,
                   batch_data, embeddings, pc, result, get_ok, store_at_start,
                   embed_log, add_log, keylog, prev, runs>>
    /\ UNCHANGED <<parseVars, idVars, queryVars, searchVars, repoVars, batchVars,
                   scanVars, overlapVars, placeVars, formVars>>

\* clear_all(): the collection is dropped and created anew; when the drop
\* raises nothing changes, when the creation raises the records are gone.
ClearAll ==
    /\ pc \in {"idle", "done", "raised"}
    /\ purges < MaxPurges
    /\ \E failed \in {"none", "delete_collection", "create_collection"} :
         /\ purge_failed' = failed
         /\ store' = IF failed = "delete_collection" THEN store ELSE EmptyCollection
    /\ purge_repo' = ""
    /\ deleted_count' = 0
    /\ store_before' = store
    /\ purges' = purges + 1
    /\ UNCHANGED <<repo_identifier, code_sections, batch_size, i, existing_ids,
                   seen_ids_this_run, indexed_count, skipped_count, error_count,
                   batch_data, embeddings, pc, result, get_ok, store_at_start,
                   embed_log, add_log, keylog, prev, runs>>
    /\ UNCHANGED <<parseVars, idVars, queryVars, searchVars, repoVars, batchVars,
                   scanVars, overlapVars, placeVars, formVars>>

(***************************************************************************)
(* Two calls of index_code_sections that overlap in time on one            *)
(* collection (two server processes on one database directory, or two      *)
(* threads): each call is the run above with its own locals; the calls to  *)
(* the collection and to the provider are the steps; nothing orders the    *)
(* steps of one call against those of the other.  The collection keeps     *)
(* one record under a key: collection.add leaves aside a key it holds.     *)
(***************************************************************************)
Calls == {1, 2}

\* the inputs of the overlapping calls: the sections of trees of one file
OverlapSectionLists == {SectionDictsOf(t) : t \in {u \in Trees : Len(u) <= 1}}

IdleCall ==
    [pc |-> "idle", repo_identifier |-> "", code_sections |-> <<>>, batch_size |-> 1,
     i |-> 0, existing_ids |-> {}, seen_ids_this_run |-> {},
     indexed_count |-> 0, skipped_count |-> 0, error_count |-> 0,
     batch_data |-> <<>>, embeddings |-> <<>>, result |-> NoResult,
     get_ok |-> TRUE, adds_before_load |-> 0, embedded |-> {}, added |-> {}]

\* the collection as key -> record
AsCollection(recs) ==
    [id \in {r.id : r \in recs} |->
        LET r == CHOOSE x \in recs : x.id = id
        IN [embedding |-> r.embedding, metadata |-> r.metadata, document |-> r.document]]

\* RecordsAdd that stores every record handed to it.
RecordsAdd_KeepingBoth(recs, items, c) ==
    recs \cup {[id |-> items[k].id, embedding |-> items[k].embedding,
                metadata |-> items[k].metadata, document |-> items[k].document,
                by |-> c] : k \in DOMAIN items}

\* collection.add by call c, when it succeeds: the records whose key the
\* collection does not hold are stored
RecordsAdd(recs, items, c) ==
    recs \cup {[id |-> items[k].id, embedding |-> items[k].embedding,
                metadata |-> items[k].metadata, document |-> items[k].document,
                by |-> c] :
               k \in {j \in DOMAIN items : \A r \in recs : r.id # items[j].id}}

OverlapInit ==
    /\ call = [c \in Calls |-> IdleCall]
    /\ records = {}
    /\ add_calls = 0

OverlapIdle == OverlapInit

\* call c of index_code_sections begins: counters zeroed, existing keys loaded
CallStart(c) ==
    /\ call[c].pc = "idle"
    /\ \E repo \in Repos, secs \in OverlapSectionLists,
          size \in 1..MaxBatchSize, get_succeeds \in BOOLEAN :
         call' = [call EXCEPT ![c] =
                    [IdleCall EXCEPT
                        !.pc = "loop",
                        !.repo_identifier = repo,
                        !.code_sections = secs,
                        !.batch_size = size,
                        !.get_ok = get_succeeds,
                        !.existing_ids =
                            LoadExistingIds(AsCollection(records), get_succeeds),
                        !.adds_before_load = add_calls]]
    /\ UNCHANGED <<records, add_calls>>
    /\ UNCHANGED notOverlapVars

\* call c cuts its next batch and keys its sections
CallPrepareBatch(c) ==
    /\ call[c].pc = "loop"
    /\ call[c].i < Len(call[c].code_sections)
    /\ LET me == call[c]
           batch == SubSeq(me.code_sections, me.i + 1,
                           Min(me.i + me.batch_size, Len(me.code_sections)))
           done == PrepareSections(batch, me.repo_identifier, me.existing_ids,
                      [batch_data |-> <<>>, skipped_count |-> me.skipped_count,
                       error_count |-> me.error_count,
                       seen_ids_this_run |-> me.seen_ids_this_run, keyed |-> {}])
       IN call' = [call EXCEPT ![c] =
                      [me EXCEPT
                          !.batch_data = done.batch_data,
                          !.skipped_count = done.skipped_count,
                          !.error_count = done.error_count,
                          !.seen_ids_this_run = done.seen_ids_this_run,
                          !.embeddings = <<>>,
                          !.i = IF done.batch_data = <<>> THEN me.i + me.batch_size
                                ELSE me.i,
                          !.pc = IF done.batch_data = <<>> THEN "loop" ELSE "embed"]]
    /\ UNCHANGED <<records, add_calls>>
    /\ UNCHANGED notOverlapVars

\* call c sends the contexts of its batch to the provider
CallGenerateEmbeddingsBatch(c) ==
    /\ call[c].pc = "embed"
    /\ LET me == call[c]
       IN \E failed \in SUBSET DOMAIN me.batch_data :
            call' = [call EXCEPT ![c] =
                       [me EXCEPT
                           !.embeddings =
                               [k \in DOMAIN me.batch_data |->
                                   IF k \in failed THEN None
                                   ELSE Vec(me.batch_data[k].context)],
                           !.embedded =
                               @ \cup {me.batch_data[k].id : k \in DOMAIN me.batch_data},
                           !.pc = "collect"]]
    /\ UNCHANGED <<records, add_calls>>
    /\ UNCHANGED notOverlapVars

\* call c collects what was embedded and inserts it in one call
CallAddBatch(c) ==
    /\ call[c].pc = "collect"
    /\ LET me == call[c]
           valid == ValidItems(me.batch_data, me.embeddings)
           ids == [k \in DOMAIN valid |-> valid[k].id]
           n_failed == Len(me.batch_data) - Len(valid)
       IN \E add_succeeds \in BOOLEAN :
            /\ ids = <<>> => add_succeeds
            /\ LET counts == IF ids = <<>>
                             THEN [indexed_count |-> me.indexed_count,
                                   error_count |-> me.error_count + n_failed]
                             ELSE CountsAfterAdd(me.indexed_count + Len(ids),
                                                 me.error_count + n_failed,
                                                 Len(ids), add_succeeds)
               IN call' = [call EXCEPT ![c] =
                             [me EXCEPT
                                 !.existing_ids = @ \cup Range(ids),
                                 !.indexed_count = counts.indexed_count,
                                 !.error_count = counts.error_count,
                                 !.added = @ \cup Range(ids),
                                 !.i = me.i + me.batch_size,
                                 !.pc = "loop"]]
            /\ records' = IF ids # <<>> /\ add_succeeds
                          THEN RecordsAdd(records, valid, c) ELSE records
            /\ add_calls' = IF ids # <<>> THEN add_calls + 1 ELSE add_calls
    /\ UNCHANGED notOverlapVars

\* call c builds its summary, or collection.count() raises
CallFinish(c) ==
    /\ call[c].pc = "loop"
    /\ call[c].i >= Len(call[c].code_sections)
    /\ LET me == call[c]
       IN \E count_succeeds \in BOOLEAN :
            call' = [call EXCEPT ![c] =
                       IF count_succeeds
                       THEN [me EXCEPT
                               !.result = [indexed |-> me.indexed_count,
                                           skipped |-> me.skipped_count,
                                           errors |-> me.error_count,
                                           total |-> Len(me.code_sections),
                                           collection_size |->
                                               Cardinality({r.id : r \in records})],
                               !.pc = "done"]
                       ELSE [me EXCEPT !.pc = "raised"]]
    /\ UNCHANGED <<records, add_calls>>
    /\ UNCHANGED notOverlapVars

NextOverlap ==
    \E c \in Calls :
        \/ CallStart(c)
        \/ CallPrepareBatch(c)
        \/ CallGenerateEmbeddingsBatch(c)
        \/ CallAddBatch(c)
        \/ CallFinish(c)

(***************************************************************************)
(* index_code_sections over any list of dictionaries: besides what the     *)
(* parser returns, lists in which a section lacks a key the preparation    *)
(* loop looks up, so that its preparation raises.                          *)
(***************************************************************************)
\* the dictionary without one of its keys
Without(section, key) == [f \in DOMAIN section \ {key} |-> section[f]]

\* the sections of a file that yields several, one of them without its name
\* or without its kind
DamagedLists ==
    UNION {{[secs EXCEPT ![k] = Without(secs[k], key)] :
                k \in DOMAIN secs, key \in {"name", "type"}} :
           secs \in {l \in OverlapSectionLists : Len(l) > 1}}

\* a run over any list
StartAnyRun == StartRunOn(SectionLists \cup DamagedLists)

NextCounts ==
    StartAnyRun \/ PrepareBatch \/ GenerateEmbeddingsBatch \/ AddBatch \/ FinishRun

(***************************************************************************)
(* CodeParser.parse_repository called on one tree placed under several     *)
(* root locations.  The root is the cache directory of the server          *)
(* (REPO_CACHE_DIR, "./repo_cache" by default) joined with the cache key   *)
(* of the repository; the walk yields every path with the root's parts in  *)
(* front.                                                                  *)
(***************************************************************************)
Roots ==
    { <<"repo_cache", "o_r_main">>,
      <<"build", "o_r_main">>,
      <<"srv", "out", "o_r_main">> }

\* the files of the tree: those of the walk that stat() and open() accept
PlacedTrees ==
    {t \in Walks :
        \A k \in DOMAIN t :
            t[k].is_file /\ t[k].stat_ok /\ t[k].readable /\ t[k].content = Rule}

\* the path rglob yields for an entry of the tree under a root
PlacedAt(root, entry) == [entry EXCEPT !.dirs = root \o Tail(entry.dirs)]

\* str(file_path.relative_to(repo_root))
RelativeTo(entry, root) ==
    JoinPath(SubSeq(Parts(entry), Len(root) + 1, Len(Parts(entry))))

NotWalked == [root \in {} |-> {}]

PlaceInit ==
    /\ placed \in PlacedTrees
    /\ repo_path \in Roots
    /\ tk = 1
    /\ handed = {}
    /\ walked = NotWalked
    /\ tpc = "walk"

PlaceIdle ==
    /\ placed = <<>>
    /\ repo_path = <<>>
    /\ tk = 1
    /\ handed = {}
    /\ walked = NotWalked
    /\ tpc = "idle"

\* one pass of: for file_path in repo_path.rglob("*"), the file handed to
\* parse_file recorded
PlacedWalkStep ==
    /\ tpc = "walk"
    /\ tk <= Len(placed)
    /\ LET file_path == PlacedAt(repo_path, placed[tk])
       IN handed' =
             IF ~file_path.is_file THEN handed
             ELSE IF ~should_parse_file(file_path) THEN handed
             ELSE handed \cup {RelativeTo(file_path, repo_path)}
    /\ tk' = tk + 1
    /\ UNCHANGED <<repo_path, placed, walked, tpc>>
    /\ UNCHANGED notPlaceVars

\* return all_sections
PlacedWalkReturn ==
    /\ tpc = "walk"
    /\ tk > Len(placed)
    /\ walked' = (repo_path :> handed) @@ walked
    /\ tpc' = "done"
    /\ UNCHANGED <<repo_path, placed, tk, handed>>
    /\ UNCHANGED notPlaceVars

\* parse_repository(repo_path) on the same tree under another root
ParseRepositoryAt ==
    /\ tpc = "done"
    /\ \E root \in Roots \ DOMAIN walked :
         repo_path' = root
    /\ tk' = 1
    /\ handed' = {}
    /\ tpc' = "walk"
    /\ UNCHANGED <<placed, walked>>
    /\ UNCHANGED notPlaceVars

(***************************************************************************)
(* The tools of main.py called with several forms of a repository          *)
(* identifier.  An identifier is the sequence of its pieces: names and the *)
(* separators "/" and "@"; ".git" is a piece of its own.                   *)
(* analyze_repository resolves the identifier to fetch the repository and  *)
(* hands the identifier as given to the indexer; the search and the purge  *)
(* take the identifier as given.  Every repository holds the same one      *)
(* file.                                                                   *)
(***************************************************************************)
Forms ==
    { <<"o", "/", "r">>,
      <<"o", "/", "r", "@", "main">>,
      <<"o", "/", "r", "@", "dev">>,
      <<"o", "/", "r", ".git">>,
      <<"https:", "/", "/", "github.com", "/", "o", "/", "r">>,
      <<"https:", "/", "/", "github.com", "/", "o", "/", "r", "/">>,
      <<"o", "/", "q">>,
      <<"o">> }

\* the default branch the remote reports
DefaultBranches == {"main", "dev"}

\* s.find(piece): the first position of the piece, 0 when there is none
IndexOf(s, piece) ==
    IF \E k \in DOMAIN s : s[k] = piece
    THEN CHOOSE k \in DOMAIN s : s[k] = piece /\ \A j \in 1..(k - 1) : s[j] # piece
    ELSE 0

\* s.split(piece)
RECURSIVE SplitAt(_, _)
SplitAt(s, piece) ==
    LET k == IndexOf(s, piece)
    IN IF k = 0 THEN <<s>>
       ELSE <<SubSeq(s, 1, k - 1)>> \o SplitAt(SubSeq(s, k + 1, Len(s)), piece)

\* s.rstrip(piece)
RECURSIVE RStripPiece(_, _)
RStripPiece(s, piece) ==
    IF s # <<>> /\ s[Len(s)] = piece THEN RStripPiece(SubSeq(s, 1, Len(s) - 1), piece)
    ELSE s

\* s.replace(piece, "")
RECURSIVE Removed(_, _)
Removed(s, piece) ==
    IF s = <<>> THEN <<>>
    ELSE IF Head(s) = piece THEN Removed(Tail(s), piece)
    ELSE <<Head(s)>> \o Removed(Tail(s), piece)

Invalid == [owner |-> "", repo |-> "", branch |-> "", cache_key |-> ""]

RepoInfo(owner, repo, branch) ==
    [owner |-> owner, repo |-> repo, branch |-> branch,
     cache_key |-> owner \o "_" \o repo \o "_" \o branch]

\* RepositoryFetcher._parse_repo_url, the url left out; Invalid for the
\* ValueError
_parse_repo_url(identifier, remote_default) ==
    LET at == IndexOf(identifier, "@")
        ident == IF at > 0 THEN SubSeq(identifier, 1, at - 1) ELSE identifier
        branch == IF at > 0 THEN Str(SubSeq(identifier, at + 1, Len(identifier)))
                  ELSE remote_default
        slash == IndexOf(ident, "/")
        parts == SplitAt(RStripPiece(ident, "/"), "/")
    IN IF ident # <<>> /\ Head(ident) \in {"http:", "https:"}
       THEN IF Len(parts) >= 2
            THEN RepoInfo(Str(parts[Len(parts) - 1]),
                          Str(Removed(parts[Len(parts)], ".git")), branch)
            ELSE Invalid
       ELSE IF slash = 0 THEN Invalid
       ELSE RepoInfo(Str(SubSeq(ident, 1, slash - 1)),
                     Str(Removed(SubSeq(ident, slash + 1,
                                        Len(ident)), ".git")),
                     branch)

\* sections_dict of the repository fetched
FetchedSections ==
    SectionDictsOf(<<CHOOSE f \in SampleFiles : f.relative_path = "b.css">>)

NoOutcome == [success |-> FALSE, ids |-> {}]

FormInit ==
    /\ store = EmptyCollection
    /\ IndexLocalsIdle
    /\ default_branch \in DefaultBranches
    /\ asked = <<>>
    /\ tool = ""
    /\ outcome = NoOutcome
    /\ calls = 0

FormIdle ==
    /\ default_branch = "main"
    /\ asked = <<>>
    /\ tool = ""
    /\ outcome = NoOutcome
    /\ calls = 0

\* analyze_repository(repo_identifier, force_refresh), every call to the
\* store and to the provider succeeding; ids: the keys it inserted
AnalyzeRepository ==
    /\ pc = "idle"
    /\ calls < MaxCalls
    /\ \E form \in Forms, force_refresh \in BOOLEAN :
         LET info == _parse_repo_url(form, default_branch)
             purged == IF force_refresh
                       THEN CollectionDelete(store,
                               {s.id : s \in get_repository_sections(
                                                store, Str(form), TRUE)})
                       ELSE store
             indexed == IndexedCollection(purged, Str(form), FetchedSections)
         IN /\ asked' = form
            /\ IF info = Invalid
               THEN store' = store /\ outcome' = NoOutcome
               ELSE /\ store' = indexed
                    /\ outcome' = [success |-> TRUE,
                                   ids |-> DOMAIN indexed \ DOMAIN purged]
    /\ tool' = "analyze"
    /\ calls' = calls + 1
    /\ UNCHANGED <<repo_identifier, code_sections, batch_size, i, existing_ids,
                   seen_ids_this_run, indexed_count, skipped_count, error_count,
                   batch_data, embeddings, pc, result, get_ok, store_at_start,
                   embed_log, add_log, keylog, prev, runs>>
    /\ UNCHANGED default_branch
    /\ UNCHANGED <<parseVars, idVars, queryVars, searchVars, repoVars, batchVars,
                   scanVars, purgeVars, overlapVars, placeVars>>

\* search_code_sections(query, repo_identifier, limit); ids: the records
\* the filter lets through
SearchCodeSections ==
    /\ pc = "idle"
    /\ calls < MaxCalls
    /\ \E form \in Forms :
         /\ asked' = form
         /\ outcome' = [success |-> TRUE,
                        ids |-> Matching(store, WhereFilter(Str(form)))]
    /\ tool' = "search"
    /\ calls' = calls + 1
    /\ UNCHANGED indexVars
    /\ UNCHANGED default_branch
    /\ UNCHANGED <<parseVars, idVars, queryVars, searchVars, repoVars, batchVars,
                   scanVars, purgeVars, overlapVars, placeVars>>

\* clear_repository_cache(repo_identifier); ids: the keys it deleted
ClearRepositoryCache ==
    /\ pc = "idle"
    /\ calls < MaxCalls
    /\ \E form \in Forms :
         LET info == _parse_repo_url(form, default_branch)
             ids == {s.id : s \in get_repository_sections(store, Str(form), TRUE)}
         IN /\ asked' = form
            /\ IF info = Invalid
               THEN store' = store /\ outcome' = NoOutcome
               ELSE /\ store' = CollectionDelete(store, ids)
                    /\ outcome' = [success |-> TRUE, ids |-> ids]
    /\ tool' = "clear"
    /\ calls' = calls + 1
    /\ UNCHANGED <<repo_identifier, code_sections, batch_size, i, existing_ids,
                   seen_ids_this_run, indexed_count, skipped_count, error_count,
                   batch_data, embeddings, pc, result, get_ok, store_at_start,
                   embed_log, add_log, keylog, prev, runs>>
    /\ UNCHANGED default_branch
    /\ UNCHANGED <<parseVars, idVars, queryVars, searchVars, repoVars, batchVars,
                   scanVars, purgeVars, overlapVars, placeVars>>

(***************************************************************************)
(* Specifications.  Spec: indexing runs follow one another on one          *)
(* collection.  SpecParse: one file is extracted.  SpecId: two keys are    *)
(* generated.                                                              *)
(***************************************************************************)
ParseIdle ==
    /\ file = [relative_path |-> "a.css", stem |-> "a", suffix |-> ".css",
               content |-> <<>>, readable |-> TRUE]
    /\ sections = <<>>
    /\ ppc = "idle"

Init == ParseIdle /\ IndexInit /\ IdIdle /\ QueryIdle /\ SearchIdle /\ RepoIdle /\ BatchIdle /\ ScanIdle
        /\ PurgeIdle /\ OverlapIdle /\ PlaceIdle /\ FormIdle

Next == StartRun \/ PrepareBatch \/ GenerateEmbeddingsBatch \/ AddBatch \/ FinishRun

Spec == Init /\ [][Next]_vars

InitParse == ParseInit /\ IndexInit /\ IdIdle /\ QueryIdle /\ SearchIdle /\ RepoIdle /\ BatchIdle
        /\ ScanIdle /\ PurgeIdle /\ OverlapIdle /\ PlaceIdle /\ FormIdle

SpecParse == InitParse /\ [][ParseFile]_vars

InitId == ParseIdle /\ IndexInit /\ IdInit /\ QueryIdle /\ SearchIdle /\ RepoIdle /\ BatchIdle /\ ScanIdle
        /\ PurgeIdle /\ OverlapIdle /\ PlaceIdle /\ FormIdle

SpecId == InitId /\ [][GenerateIds]_vars

InitQuery == ParseIdle /\ IndexInit /\ IdIdle /\ QueryInit /\ SearchIdle /\ RepoIdle /\ BatchIdle /\ ScanIdle
        /\ PurgeIdle /\ OverlapIdle /\ PlaceIdle /\ FormIdle

SpecQuery == InitQuery /\ [][PreprocessQuery]_vars

InitSearch == ParseIdle /\ IdIdle /\ SearchInit /\ RepoIdle /\ BatchIdle /\ ScanIdle
        /\ PurgeIdle /\ OverlapIdle /\ PlaceIdle /\ FormIdle

SpecSearch == InitSearch /\ [][Search]_vars

InitRepo == ParseIdle /\ IndexInit /\ IdIdle /\ QueryIdle /\ SearchIdle /\ RepoInit /\ BatchIdle /\ ScanIdle
        /\ PurgeIdle /\ OverlapIdle /\ PlaceIdle /\ FormIdle

NextRepo == WalkStep \/ WalkReturn

SpecRepo == InitRepo /\ [][NextRepo]_vars

InitBatch ==
    ParseIdle /\ IndexInit /\ IdIdle /\ QueryIdle /\ SearchIdle /\ RepoIdle /\ BatchInit /\ ScanIdle
        /\ PurgeIdle /\ OverlapIdle /\ PlaceIdle /\ FormIdle

NextBatch ==
    Submit \/ SubmittedAll \/ StartTask \/ FinishTask \/ AwaitFuture \/ ReturnResults

SpecBatch == InitBatch /\ [][NextBatch]_vars

InitScan ==
    ParseIdle /\ IndexInit /\ IdIdle /\ QueryIdle /\ SearchIdle /\ RepoIdle /\ BatchIdle
        /\ ScanInit /\ PurgeIdle /\ OverlapIdle /\ PlaceIdle /\ FormIdle

SpecScan == InitScan /\ [][ExtractSectionCode]_vars

SpecCounts == Init /\ [][NextCounts]_vars

InitPurge ==
    ParseIdle /\ IdIdle /\ QueryIdle /\ SearchIdle /\ RepoIdle /\ BatchIdle /\ ScanIdle
        /\ PurgeInit /\ OverlapIdle /\ PlaceIdle /\ FormIdle

NextPurge == DeleteRepository \/ ClearAll

SpecPurge == InitPurge /\ [][NextPurge]_vars

InitOverlap ==
    ParseIdle /\ IndexInit /\ IdIdle /\ QueryIdle /\ SearchIdle /\ RepoIdle /\ BatchIdle
        /\ ScanIdle /\ PurgeIdle /\ OverlapInit /\ PlaceIdle /\ FormIdle

SpecOverlap == InitOverlap /\ [][NextOverlap]_vars

InitPlace ==
    ParseIdle /\ IndexInit /\ IdIdle /\ QueryIdle /\ SearchIdle /\ RepoIdle /\ BatchIdle
        /\ ScanIdle /\ PurgeIdle /\ OverlapIdle /\ PlaceInit /\ FormIdle

NextPlace == PlacedWalkStep \/ PlacedWalkReturn \/ ParseRepositoryAt

SpecPlace == InitPlace /\ [][NextPlace]_vars

InitForms ==
    ParseIdle /\ IdIdle /\ QueryIdle /\ SearchIdle /\ RepoIdle /\ BatchIdle /\ ScanIdle
        /\ PurgeIdle /\ OverlapIdle /\ PlaceIdle /\ FormInit

NextForms == AnalyzeRepository \/ SearchCodeSections \/ ClearRepositoryCache

SpecForms == InitForms /\ [][NextForms]_vars

(***************************************************************************)
(* Properties of the extractor (SpecParse).                                *)
(***************************************************************************)
PatternSections == {k \in DOMAIN sections : sections[k].type # "file"}

\* C1: every section parse_file returns, pattern section or whole-file
\* section, has 1 <= start_line <= end_line <= the number of lines of the
\* content.
C1_LineBounds ==
    ppc = "parsed" =>
        \A k \in DOMAIN sections :
            /\ 1 <= sections[k].start_line
            /\ sections[k].start_line <= sections[k].end_line
            /\ sections[k].end_line <= line_count

\* C1 witness: a pattern section that starts after line 1, found no matching
\* brace and ends on the last line of the file.
C1_Witness ==
    /\ ppc = "parsed"
    /\ \E k \in PatternSections :
        /\ sections[k].start_line > 1
        /\ sections[k].end_line = line_count
        /\ \A c \in Range(file.content) : c # "}"

\* C2 as claimed: an eligible, readable file with non-empty content yields at
\* least one section, and when no rule yields one, exactly one section of
\* kind "file" from line 1 to the last line.
C2_Claimed_NonEmptyContent ==
    (ppc = "parsed" /\ file.readable /\ file.content # <<>>) =>
        /\ Len(sections) >= 1
        /\ PatternSections = {} =>
            /\ Len(sections) = 1
            /\ sections[1].type = "file"
            /\ sections[1].start_line = 1
            /\ sections[1].end_line = line_count

\* C2 amended: the same for a readable file whose content holds at least one
\* character that is not white space.
C2_NonBlankContent ==
    (ppc = "parsed" /\ file.readable /\ \E c \in Range(file.content) : ~IsSpace(c)) =>
        /\ Len(sections) >= 1
        /\ PatternSections = {} =>
            /\ Len(sections) = 1
            /\ sections[1].type = "file"
            /\ sections[1].start_line = 1
            /\ sections[1].end_line = line_count

\* C2 witness: a file of several lines that holds rule prefixes and braces
\* but no complete rule, returned as one whole-file section.
C2_Witness ==
    /\ ppc = "parsed"
    /\ file.readable
    /\ "." \in Range(file.content)
    /\ "{" \in Range(file.content)
    /\ line_count > 1
    /\ Len(sections) = 1
    /\ sections[1].type = "file"

\* C3: the body of every section is at most the cap long, truncated bodies
\* with their marker included.
C3_BodyWithinCap ==
    ppc = "parsed" =>
        \A k \in DOMAIN sections : Len(sections[k].code) <= MaxSectionLength

(***************************************************************************)
(* Properties of the keys (SpecId).                                        *)
(***************************************************************************)
\* C7: two argument tuples (repository identity, file path, section name,
\* start line, end line, content hash) that differ in a component give
\* different strings to the hash, hence different keys.
C7_KeyUniquePerTuple ==
    (id_out # <<>> /\ id_in[1] # id_in[2]) => id_out[1] # id_out[2]

(***************************************************************************)
(* Properties of the indexer (Spec).                                       *)
(***************************************************************************)
Finished == pc \in {"done", "raised"}

\* the key of the k-th section of the run's input
IdAt(k) == SectionId(repo_identifier, code_sections[k])

\* input positions whose key was in the collection when the run began
KnownAtStart == {k \in DOMAIN code_sections : IdAt(k) \in store_at_start}

\* input positions that repeat the key of an earlier position
Repeats == {k \in DOMAIN code_sections : \E j \in 1..(k - 1) : IdAt(j) = IdAt(k)}

\* keys handed to the insertion calls of the run
AddedIds == UNION {Range(add_log[k].ids) : k \in DOMAIN add_log}

RECURSIVE Sum(_)
Sum(ns) == IF ns = <<>> THEN 0 ELSE Head(ns) + Sum(Tail(ns))

SumOver(log, F(_)) == Sum([k \in DOMAIN log |-> F(log[k])])

\* a run with the repository identity and the section list of the run
\* before it, which returned its summary
SameAsBefore ==
    /\ runs >= 2
    /\ prev.returned
    /\ prev.repo = repo_identifier
    /\ prev.sections = code_sections

SameKeyInputs(a, b) ==
    /\ a.repo = b.repo
    /\ a.file_path = b.file_path
    /\ a.name = b.name
    /\ a.start_line = b.start_line
    /\ a.end_line = b.end_line
    /\ a.code = b.code

TwoKinds ==
    {pair \in keylog \X keylog :
        /\ SameKeyInputs(pair[1], pair[2])
        /\ pair[1].type # pair[2].type}

\* C8: two sections equal in repository, path, name, lines and body but of
\* different kinds get different keys, and a run without errors leaves both
\* in the collection.
C8_KindsGetDifferentKeys ==
    \A pair \in TwoKinds :
        /\ pair[1].id # pair[2].id
        /\ (pc = "done" /\ error_count = 0 /\ pair[1].repo = repo_identifier
               /\ {pair[1].id, pair[2].id} \subseteq {IdAt(k) : k \in DOMAIN code_sections})
            => {pair[1].id, pair[2].id} \subseteq DOMAIN store

\* C8 witness: a run on an empty collection over one span captured under two
\* kinds, finished without errors with both records stored.
C8_Witness ==
    /\ pc = "done"
    /\ error_count = 0
    /\ store_at_start = {}
    /\ \E pair \in TwoKinds :
        /\ pair[1].repo = repo_identifier
        /\ {pair[1].id, pair[2].id} \subseteq DOMAIN store
    /\ result.indexed >= 2

EmbeddingErrors(e) == Cardinality(e.failed)
InsertErrors(e) == IF e.called /\ ~e.ok THEN Len(e.ids) ELSE 0
Inserted(e) == IF e.called /\ e.ok THEN Len(e.ids) ELSE 0
Queued(e) == Len(e.batch)

\* C9: in every batch, the sections whose embedding failed are counted in
\* errors and are not in the insertion, the others are exactly what is
\* inserted, and the run goes on to the end of its input.
C9_EmbeddingFailureIsolated ==
    /\ \A k \in DOMAIN add_log :
        LET e == add_log[k]
        IN /\ Range(e.ids) = {e.batch[j] : j \in DOMAIN e.batch \ e.failed}
           /\ Len(e.ids) = Len(e.batch) - Cardinality(e.failed)
           /\ e.called <=> e.ids # <<>>
           /\ (e.called /\ e.ok) => Range(e.ids) \subseteq DOMAIN store
           /\ \A j \in e.failed : e.batch[j] \in DOMAIN store => e.batch[j] \in store_at_start
    /\ pc \in {"loop", "embed", "done", "raised"} =>
        error_count = SumOver(add_log, EmbeddingErrors) + SumOver(add_log, InsertErrors)
    /\ Finished =>
        /\ i >= Len(code_sections)
        /\ skipped_count + SumOver(add_log, Queued) = Len(code_sections)

\* C9 witness: a finished run with a batch in which one embedding failed and
\* another was inserted, followed by a later batch that was inserted too.
C9_Witness ==
    /\ pc = "done"
    /\ \E j, k \in DOMAIN add_log :
        /\ j < k
        /\ add_log[j].failed # {}
        /\ add_log[j].called /\ add_log[j].ok
        /\ add_log[k].called /\ add_log[k].ok

C11_NeverRaises == pc # "raised"

(***************************************************************************)
(* Claims about _preprocess_query.                                         *)
(***************************************************************************)
\* the tokens of the lowered and stripped query
Tokens == Split(Normalize(query))

\* a token that is a stop word
IsStopToken(t) == Str(t) \in stop_words

\* a token the loop drops: without its punctuation, a stop word of at most
\* three characters
IsDropped(t) == Str(CleanWord(t)) \in stop_words /\ Len(CleanWord(t)) <= 3

ClaimedWord(t) ==
    IF Str(t) \in DOMAIN abbreviations THEN <<Str(t), abbreviations[Str(t)]>>
    ELSE IF Str(t) \in stop_words /\ Len(t) <= 3 THEN <<>>
    ELSE <<Str(t)>>

RECURSIVE ClaimedWords(_)
ClaimedWords(ts) ==
    IF ts = <<>> THEN <<>> ELSE ClaimedWord(Head(ts)) \o ClaimedWords(Tail(ts))

RECURSIVE CleanWords(_)
CleanWords(ts) ==
    IF ts = <<>> THEN <<>> ELSE <<CleanWord(Head(ts))>> \o CleanWords(Tail(ts))

\* C16 as claimed: in token order, an abbreviation is put out followed by its
\* expansion, a stop word of at most three characters is dropped, every
\* other token is put out once.
C16_Claimed_TokensExpanded ==
    qpc = "done" => expanded_words = ClaimedWords(Tokens)

\* C16: the same of the tokens without their punctuation; and the words put
\* out, joined by single spaces, are returned unless that string is empty,
\* when the lowered and stripped query is.
C16_CleanTokensExpanded ==
    qpc = "done" =>
        /\ expanded_words = ClaimedWords(CleanWords(Tokens))
        /\ processed_query = IF JoinSpace(expanded_words) # ""
                             THEN JoinSpace(expanded_words)
                             ELSE Str(Normalize(query))

\* C16 witness: a query with an abbreviation that carries punctuation and a
\* stop word that is dropped was preprocessed.
C16_Witness ==
    /\ qpc = "done"
    /\ \E k \in DOMAIN Tokens :
         /\ CleanWord(Tokens[k]) # Tokens[k]
         /\ Str(CleanWord(Tokens[k])) \in DOMAIN abbreviations
    /\ \E k \in DOMAIN Tokens : IsDropped(Tokens[k])
    /\ Len(expanded_words) = 2
    /\ processed_query = "db database"

(***************************************************************************)
(* Claims about search_sections.                                           *)
(***************************************************************************)
\* the neighbours whose score, 1 - distance, is at least min_score
KeptNeighbours ==
    SelectSeq(neighbours, LAMBDA n : 100000 - n.distance >= min_score)

\* C12: a search that did not fail returns the neighbours whose score is at
\* least min_score, in the order the collection gave them, each with its
\* key, metadata and document and its score rounded to four decimals; the
\* scores do not increase along the list.
C12_ResultsAreFilteredNeighbours ==
    (spc = "returned" /\ search_failed = "none") =>
        /\ Len(formatted_results) = Len(KeptNeighbours)
        /\ \A k \in DOMAIN formatted_results :
             LET exact == 100000 - KeptNeighbours[k].distance
                 given == formatted_results[k].score
             IN /\ formatted_results[k].id = KeptNeighbours[k].id
                /\ formatted_results[k].metadata = KeptNeighbours[k].metadata
                /\ formatted_results[k].code = KeptNeighbours[k].document
                /\ given % 10 = 0
                /\ given - exact \in -5..5
        /\ \A j, k \in DOMAIN formatted_results :
             j < k => formatted_results[j].score >= formatted_results[k].score

\* C12 witness: of two neighbours the farther one was dropped, and the score
\* of the nearer one was rounded.
C12_Witness ==
    /\ spc = "returned"
    /\ search_failed = "none"
    /\ Len(neighbours) = 2
    /\ Len(formatted_results) = 1
    /\ formatted_results[1].id = neighbours[1].id
    /\ formatted_results[1].score # 100000 - neighbours[1].distance

\* every returned score lies between 0 and 1
ScoresInUnitInterval ==
    \A k \in DOMAIN formatted_results :
        formatted_results[k].score \in 0..100000

\* C13 as claimed: whatever min_score the caller gives, every returned score
\* lies in [0, 1].
C13_Claimed_ScoresInUnitInterval ==
    spc = "returned" => ScoresInUnitInterval

\* C13: when min_score is not negative, every returned score lies in [0, 1].
C13_ScoresInUnitIntervalFromZero ==
    (spc = "returned" /\ min_score >= 0) => ScoresInUnitInterval

\* C13 witness: with min_score 0 a neighbour at distance 1.0 was returned
\* with score 0 and one farther than 1.0 was dropped.
C13_Witness ==
    /\ spc = "returned"
    /\ min_score = 0
    /\ Len(neighbours) = 2
    /\ neighbours[2].distance > 100000
    /\ Len(formatted_results) = 1
    /\ formatted_results[1].score = 0

\* C14: a search in which preprocessing, embedding, the query of the
\* collection or the formatting raised returns the empty list; and no search
\* changes the collection.
C14_FailedSearchReturnsEmpty ==
    [][spc' = "returned" =>
          /\ store' = store
          /\ (search_failed' # "none" => formatted_results' = <<>>)]_vars

\* C14 witness: formatting raised at the second neighbour, the first having
\* passed the filter, and the list returned is empty.
C14_Witness ==
    /\ spc = "returned"
    /\ search_failed = "convert"
    /\ Len(neighbours) = 2
    /\ 100000 - neighbours[1].distance >= min_score
    /\ formatted_results = <<>>
    /\ store # EmptyCollection

(***************************************************************************)
(* Claims about parse_repository and should_parse_file.                    *)
(***************************************************************************)
\* what the claim has a path contribute: nothing when it is no file, is not
\* eligible or cannot be read, else what extraction finds in its content
Contribution(entry) ==
    IF ~entry.is_file \/ ~should_parse_file(entry) \/ ~entry.readable THEN <<>>
    ELSE parse_file([FileOf(entry) EXCEPT !.readable = TRUE])

RECURSIVE Contributions(_)
Contributions(entries) ==
    IF entries = <<>> THEN <<>>
    ELSE Contribution(Head(entries)) \o Contributions(Tail(entries))

\* C17: a file that cannot be read adds no section, and the list returned is
\* the per-file results in the order of the walk, whichever files failed.
C17_FailedFilesAreSkipped ==
    /\ rpc = "walk" => all_sections = Contributions(SubSeq(walk, 1, rk - 1))
    /\ rpc = "done" => all_sections = Contributions(walk)

\* C17 witness: the walk met an eligible file with sections, then an eligible
\* file that could not be read, and returned the sections of the first.
C17_Witness ==
    /\ rpc = "done"
    /\ Len(walk) = 2
    /\ \A k \in DOMAIN walk : walk[k].is_file /\ should_parse_file(walk[k])
    /\ walk[1].readable
    /\ ~walk[2].readable
    /\ all_sections # <<>>

\* the four conditions, the name taken as it is spelt
EligibleAsSpelt(entry) ==
    /\ Str(Suffix(entry.name)) \in SUPPORTED_EXTENSIONS
    /\ \A pattern \in default_skip_patterns : ~Contains(entry.name, pattern)
    /\ entry.stat_ok /\ Len(entry.content) <= MaxFileBytes
    /\ \A k \in DOMAIN Parts(entry) : Parts(entry)[k] \notin skip_dirs

\* the four conditions, the name taken in lower case
EligibleLowered(entry) ==
    /\ Str(Suffix(entry.name)) \in SUPPORTED_EXTENSIONS
    /\ \A pattern \in default_skip_patterns : ~Contains(Lower(entry.name), pattern)
    /\ entry.stat_ok /\ Len(entry.content) <= MaxFileBytes
    /\ \A k \in DOMAIN Parts(entry) : Parts(entry)[k] \notin skip_dirs

\* the files of the walk that were handed to should_parse_file
Judged == {walk[k] : k \in {j \in 1..(rk - 1) : walk[j].is_file}}

\* C18 as claimed: a file is accepted exactly when its extension is allowed,
\* its name contains no skip substring, its size can be read and is at most
\* the ceiling, and no component of its path is an excluded directory.
C18_Claimed_AcceptedIffEligible ==
    \A entry \in Judged : should_parse_file(entry) <=> EligibleAsSpelt(entry)

\* C18: the same, the skip substrings being looked for in the lower-cased name.
C18_AcceptedIffEligibleLowered ==
    \A entry \in Judged : should_parse_file(entry) <=> EligibleLowered(entry)

\* C18 witness: the walk judged a file of exactly the ceiling size, which it
\* accepted, and a file whose size could not be read, which it rejected.
C18_Witness ==
    /\ rpc = "done"
    /\ Len(walk) = 2
    /\ walk[1].is_file /\ walk[1].stat_ok /\ Len(walk[1].content) = MaxFileBytes
    /\ should_parse_file(walk[1])
    /\ all_sections # <<>>
    /\ walk[2].is_file /\ ~walk[2].stat_ok
    /\ Str(Suffix(walk[2].name)) \in SUPPORTED_EXTENSIONS
    /\ ~should_parse_file(walk[2])

(***************************************************************************)
(* Claims about _generate_embeddings_batch.                                *)
(***************************************************************************)
\* C19: at every moment of every interleaving, at most max_workers provider
\* calls are under way, however many texts the batch holds.
C19_BoundedCallsInFlight == Cardinality(InFlight) <= max_workers

\* C19 witness: every thread of the pool is in a provider call while another
\* task is waiting in the queue.
C19_Witness ==
    /\ Cardinality(InFlight) = max_workers
    /\ \E k \in DOMAIN task : task[k] = "queued"

\* C20: the batch returns only when every task has finished; the slot of a
\* finished task holds the embedding of its text if its call succeeded and
\* None if it failed, whatever the order of completion, and the slot of a
\* task that has not finished is untouched.
C20_ResultsMatchTexts ==
    /\ Len(results) = Len(texts)
    /\ \A k \in DOMAIN texts :
         results[k] = IF task[k] = "done" /\ call_ok[k] THEN Vec(texts[k]) ELSE None
    /\ bpc = "returned" => \A k \in DOMAIN texts : task[k] = "done"

\* C20 witness: a batch of three texts returned, the call for the second
\* having failed and the calls for the first and the third succeeded.
C20_Witness ==
    /\ bpc = "returned"
    /\ Len(texts) = 3
    /\ texts[1] # texts[3]
    /\ call_ok[1] /\ ~call_ok[2] /\ call_ok[3]
    /\ results = <<Vec(texts[1]), None, Vec(texts[3])>>

(***************************************************************************)
(* Claims about one run and about the life of a record.                    *)
(***************************************************************************)
NoRepeat(s) == \A j, k \in DOMAIN s : j # k => s[j] # s[k]

\* the keys handed to the insertion calls of the run, call after call
RECURSIVE InsertedKeys(_)
InsertedKeys(log) ==
    IF log = <<>> THEN <<>>
    ELSE (IF Head(log).called THEN Head(log).ids ELSE <<>>) \o InsertedKeys(Tail(log))

\* C21: within one run every key is sent to the provider at most once and is
\* in at most one insertion call, its repetitions falling in the same batch
\* or in a later one; and the batches follow one another: when the provider
\* has been called for a batch, every batch sent before it has been through
\* its insertion.
C21_KeyEmbeddedOncePerRun ==
    /\ NoRepeat(embed_log)
    /\ NoRepeat(InsertedKeys(add_log))
    /\ Len(embed_log) =
          SumOver(add_log, Queued) + (IF pc = "collect" THEN Len(batch_data) ELSE 0)
    /\ pc = "embed" => Len(embed_log) = SumOver(add_log, Queued)

\* C21 witness: a finished run over an input that holds a key twice, the
\* first occurrence embedded and inserted, the second either in a later batch
\* (batches of one) or next to the first in one batch of two.
C21_Witness ==
    /\ pc = "done"
    /\ Repeats # {}
    /\ \E k \in Repeats : IdAt(k) \in Range(InsertedKeys(add_log))
    /\ \/ /\ batch_size = 1
          /\ Len(add_log) >= 2
       \/ /\ batch_size = 2
          /\ \E k \in Repeats : k % 2 = 0 /\ IdAt(k - 1) = IdAt(k)

(***************************************************************************)
(* Properties of the brace scan (SpecScan).                                *)
(***************************************************************************)
\* the characters of lines a..b, one after another
RECURSIVE Flat(_, _, _)
Flat(ls, a, b) == IF a > b THEN <<>> ELSE ls[a] \o Flat(ls, a + 1, b)

\* opening braces minus closing braces among the first n characters
RECURSIVE BraceCount(_, _)
BraceCount(s, n) ==
    IF n = 0 THEN 0
    ELSE BraceCount(s, n - 1)
            + (IF s[n] = "{" THEN 1 ELSE IF s[n] = "}" THEN -1 ELSE 0)

\* at character n the count is zero and it was positive before
BackToZero(s, n) ==
    /\ BraceCount(s, n) = 0
    /\ \E m \in 1..(n - 1) : BraceCount(s, m) > 0

\* the lines, from the start line on, on which the count comes back to zero
BalancingLines ==
    {j \in from_line..Len(src_lines) :
        \E n \in (Len(Flat(src_lines, from_line, j - 1)) + 1)
                    ..Len(Flat(src_lines, from_line, j)) :
            BackToZero(Flat(src_lines, from_line, j), n)}

\* the lines the scan reads
Scanned == from_line..Min(Len(src_lines), from_line + Lookahead)

Lowest(S) == CHOOSE j \in S : \A k \in S : j <= k

EndsAt(j) ==
    /\ extracted.end_line = j
    /\ extracted.code = Join(SubSeq(src_lines, from_line, j))

\* C22 as claimed: counting from the first character of the start line, the
\* returned end_line is the first line on which the count comes back to zero
\* after having been positive, and the body is the lines from start_line
\* through end_line.
C22_Claimed_EndsAtFirstBalancingLine ==
    (xpc = "returned" /\ BalancingLines # {}) => EndsAt(Lowest(BalancingLines))

\* C22 amended: the same, when that line is among the lines the scan reads,
\* the start line and the Lookahead lines after it.
C22_EndsAtFirstBalancingLineScanned ==
    (xpc = "returned" /\ BalancingLines \cap Scanned # {}) =>
        EndsAt(Lowest(BalancingLines))

\* C22 witness: a match on a later line than the first, after a line with a
\* brace; a closing brace read while the count is not positive; the section
\* ends lines later, before a further line that balances too.
C22_Witness ==
    /\ xpc = "returned"
    /\ from_line > 1
    /\ "{" \in Range(src_lines[from_line - 1])
    /\ Head(src_lines[from_line]) = "}"
    /\ BalancingLines \cap Scanned # {}
    /\ extracted.end_line > from_line + 1
    /\ Cardinality(BalancingLines) >= 2

\* C23: the scan reads the start line and at most Lookahead lines after it,
\* and lines further on change nothing; when no line read brings the count
\* back to zero, the section is the first min(FallbackLines, lines read)
\* lines and end_line = start_line + that number - 1; so end_line -
\* start_line <= Lookahead in every case.
C23_BoundedScanFallsBack ==
    xpc = "returned" =>
        /\ extracted.end_line - from_line <= Lookahead
        /\ extracted.end_line >= from_line
        /\ extracted =
              _extract_section_code(
                  SubSeq(src_lines, 1, Min(Len(src_lines), from_line + Lookahead)),
                  from_line)
        /\ BalancingLines \cap Scanned = {} =>
              LET max_lines == Min(FallbackLines, Cardinality(Scanned))
              IN /\ extracted.end_line = from_line + max_lines - 1
                 /\ extracted.code =
                       Join(SubSeq(src_lines, from_line, from_line + max_lines - 1))

\* C23 witness: the file goes on beyond the lines read and balances there;
\* the section is the first FallbackLines lines.
C23_Witness ==
    /\ xpc = "returned"
    /\ Len(src_lines) > from_line + Lookahead
    /\ BalancingLines # {}
    /\ BalancingLines \cap Scanned = {}
    /\ extracted.end_line = from_line + FallbackLines - 1

\* C23 witness, the other case: the file ends before FallbackLines lines were
\* read.
C23_ShortFile ==
    /\ xpc = "returned"
    /\ BalancingLines = {}
    /\ Cardinality(Scanned) < FallbackLines
    /\ extracted.end_line = Len(src_lines)

\* a section of the run before and a section of this run: the same file,
\* name and kind, the body or the line range changed
Edited(o, n) ==
    /\ o.file_path = n.file_path
    /\ o.name = n.name
    /\ o.type = n.type
    /\ \/ o.code # n.code
       \/ o.start_line # n.start_line
       \/ o.end_line # n.end_line

EditedPairs ==
    {pair \in Range(prev.sections) \X Range(code_sections) : Edited(pair[1], pair[2])}

\* the collection holds the section under its key
Holds(collection, repo, section) ==
    LET id == SectionId(repo, section)
    IN /\ id \in DOMAIN collection
       /\ collection[id].metadata.repo = repo
       /\ collection[id].metadata.file_path = section.file_path
       /\ collection[id].metadata.name = section.name
       /\ collection[id].metadata.start_line = section.start_line
       /\ collection[id].metadata.end_line = section.end_line
       /\ collection[id].document = Take(section.code, MaxDocumentLength)

\* a run that re-indexed the repository of the run before, both without error
Reindexed ==
    /\ runs >= 2
    /\ pc = "done"
    /\ error_count = 0
    /\ prev.returned
    /\ prev.errors = 0
    /\ prev.repo = repo_identifier

RecordsKept ==
    \A id \in DOMAIN store : id \in DOMAIN store' /\ store'[id] = store[id]

BothRecordsHeld ==
    Reindexed =>
        \A pair \in EditedPairs :
            /\ SectionId(repo_identifier, pair[1]) # SectionId(repo_identifier, pair[2])
            /\ Holds(store, repo_identifier, pair[1])
            /\ Holds(store, repo_identifier, pair[2])

\* C24: no step of index_code_sections changes or removes a record of the
\* collection; after a repository was re-indexed with a section whose body or
\* line range changed, the collection holds the old record and the new one
\* under different keys.  (What removes records is delete_repository and
\* clear_all, which are no steps of index_code_sections.)
C24_IndexingKeepsRecords == [][RecordsKept]_vars /\ []BothRecordsHeld

\* C24 witness: a repository re-indexed after an edit that changed the body
\* of a section and left its lines, both records in the collection; the
\* second run loaded the existing keys.
C24_Witness ==
    /\ Reindexed
    /\ get_ok
    /\ \E pair \in EditedPairs :
        /\ pair[1].code # pair[2].code
        /\ pair[1].start_line = pair[2].start_line
        /\ Holds(store, repo_identifier, pair[1])
        /\ Holds(store, repo_identifier, pair[2])

\* the same after an edit that moved a section to other lines, its body kept
C24_MovedSection ==
    /\ Reindexed
    /\ \E pair \in EditedPairs :
        /\ pair[1].code = pair[2].code
        /\ pair[1].start_line # pair[2].start_line
        /\ Holds(store, repo_identifier, pair[1])
        /\ Holds(store, repo_identifier, pair[2])

(***************************************************************************)
(* Properties of the purge (SpecPurge).                                    *)
(***************************************************************************)
\* the keys of the records a call index_code_sections(repo, ...) inserts
InsertedBy(repo) ==
    UNION {DOMAIN IndexedCollection(EmptyCollection, repo, secs) : secs \in SectionLists}

\* the last purge was delete_repository
Deleted == purges >= 1 /\ purge_repo # ""

\* C25: after delete_repository(R) without a failure of the collection, no
\* record an earlier index_code_sections(R, ...) inserted is left, every
\* record of another repository identity is as it was, and the number
\* returned is the number of records removed; after a failure it returned 0.
C25_PurgeRemovesTheRepository ==
    Deleted =>
        IF purge_failed = "none"
        THEN /\ InsertedBy(purge_repo) \cap DOMAIN store = {}
             /\ \A id \in DOMAIN store : store[id].metadata.repo # purge_repo
             /\ \A id \in DOMAIN store_before :
                   (\/ store_before[id].metadata.repo # purge_repo
                    \/ \E other \in Repos \ {purge_repo} : id \in InsertedBy(other))
                   => id \in DOMAIN store /\ store[id] = store_before[id]
             /\ DOMAIN store \subseteq DOMAIN store_before
             /\ deleted_count = Cardinality(DOMAIN store_before \ DOMAIN store)
        ELSE deleted_count = 0

\* C25 witness: a collection with records of two repositories, of which
\* delete_repository removed those of one, three or more, and left the others.
C25_Witness ==
    /\ Deleted
    /\ purge_failed = "none"
    /\ deleted_count >= 3
    /\ InsertedBy(purge_repo) \cap DOMAIN store_before # {}
    /\ DOMAIN store # {}

\* C25 witness of the failure: collection.delete raised on a repository that
\* has records.
C25_DeleteRaised ==
    /\ Deleted
    /\ purge_failed = "delete"
    /\ deleted_count = 0
    /\ InsertedBy(purge_repo) \cap DOMAIN store # {}

(***************************************************************************)
(* Properties of overlapping calls (SpecOverlap).                          *)
(***************************************************************************)
\* keys both calls sent to the provider and handed to an insertion
InsertedTwice == (call[1].embedded \cap call[2].embedded)
                    \cap (call[1].added \cap call[2].added)

Damaged == {k \in DOMAIN code_sections :
               ~(KeyedFields \cup {"type"} \subseteq DOMAIN code_sections[k])}

\* C27: the summary index_code_sections returns has indexed + skipped +
\* errors = total, the number of sections given, and no count is negative,
\* whatever preparation, embedding or insertion failed; the counters are
\* never negative during the run either.
C27_CountsAddUp ==
    /\ indexed_count >= 0 /\ skipped_count >= 0 /\ error_count >= 0
    /\ pc = "done" =>
        /\ result.total = Len(code_sections)
        /\ result.indexed >= 0 /\ result.skipped >= 0 /\ result.errors >= 0
        /\ result.indexed + result.skipped + result.errors = result.total

\* C27 witness: a returned summary of a run in which the preparation of a
\* section raised, an embedding failed and an insertion failed.
C27_Witness ==
    /\ pc = "done"
    /\ Damaged # {}
    /\ SumOver(add_log, EmbeddingErrors) > 0
    /\ SumOver(add_log, InsertErrors) > 0
    /\ result.errors >
          SumOver(add_log, EmbeddingErrors) + SumOver(add_log, InsertErrors)
    /\ result.total = 3

\* C27 witness of the other counts: a summary with sections indexed, skipped
\* and in error.
C27_AllThreeCounts ==
    /\ pc = "done"
    /\ result.indexed > 0 /\ result.skipped > 0 /\ result.errors > 0
    /\ Damaged # {}

\* input positions whose key is computed
Keyed == {k \in DOMAIN code_sections : KeyedFields \subseteq DOMAIN code_sections[k]}

\* input positions that are skipped: the key was loaded from the collection
\* at the start, or was met at an earlier position of the run
SkippedPositions ==
    {k \in Keyed :
        \/ get_ok /\ IdAt(k) \in store_at_start
        \/ \E j \in Keyed : j < k /\ IdAt(j) = IdAt(k)}

\* keys whose preparation raised after they were marked as seen, whose
\* embedding failed, or whose insertion failed
FailedKeys ==
    {IdAt(k) : k \in {j \in Keyed : "type" \notin DOMAIN code_sections[j]}}
    \cup UNION {{add_log[e].batch[j] : j \in add_log[e].failed} : e \in DOMAIN add_log}
    \cup UNION {Range(add_log[e].ids) :
                    e \in {d \in DOMAIN add_log : add_log[d].called /\ ~add_log[d].ok}}

C29_SameFilesUnderAnyRoot ==
    \A a, b \in DOMAIN walked : walked[a] = walked[b]

\* the repository, the owner and the branch an identifier stored in the
\* collection resolves to
Resolved(repo) ==
    _parse_repo_url(CHOOSE form \in Forms : Str(form) = repo, default_branch)

\* two records hold the same section of the same repository
SameSection(x, y) ==
    /\ Resolved(store[x].metadata.repo) = Resolved(store[y].metadata.repo)
    /\ store[x].metadata.file_path = store[y].metadata.file_path
    /\ store[x].metadata.name = store[y].metadata.name
    /\ store[x].document = store[y].document

\* the records of the repository the given identifier resolves to
OfGiven ==
    {id \in DOMAIN store :
        Resolved(store[id].metadata.repo) = _parse_repo_url(asked, default_branch)}

\* C30 as claimed: identifiers that resolve to the same owner, repository
\* and branch name one partition: a section is stored once whatever forms
\* it was indexed through, a search returns the records of the repository
\* whatever form filters it, and a purge leaves none of them.
C30_CanonicalIdentity ==
    /\ \A x, y \in DOMAIN store : SameSection(x, y) => x = y
    /\ tool = "search" /\ outcome.success => outcome.ids = OfGiven
    /\ tool = "clear" /\ outcome.success => OfGiven = {}

====
